---------------------------- MODULE Spec2Model ----------------------------
(***************************************************************************)
(* Answer grading and game sessions of the quiz-game backend.              *)
(*                                                                         *)
(* A string is a sequence of one-character strings.  The record            *)
(* [threw, value] is the completion of a call: the boolean it returned, or *)
(* that it raised.                                                         *)
(***************************************************************************)
EXTENDS Integers, Sequences, FiniteSets, TLC

VARIABLES
    pc,              \* "call": the inputs are drawn; "done": validate has run
    userAnswer,      \* validate's first argument
    correctAnswers,  \* validate's second argument
    inputType,       \* validate's third argument
    targetValue,     \* validate's fourth argument: <<>> (null/undefined) or <<v>>
    result,          \* the completion of validate
    gameResult,      \* the GameResult table; a row's id is its index
    gameQuestion,    \* the GameQuestion table, in order of creation
    profile,         \* the Profile table, one row for each user
    hintUsage,       \* the HintUsage table, in order of creation
    authSession,     \* the Session table of the refresh tokens
    store,           \* the rate limiter's Map: key -> [count, resetAt]
    now,             \* the clock
    req,             \* the last request: route, authenticated user, session id
    res,             \* the response to it
    toCreateGQ,      \* the rows the last /complete wrote to GameQuestion
    call,            \* a call of a scoring function: its name and arguments
    ret              \* <<>> before the call returns, <<v>> once it returned v

vars ==
    <<pc, userAnswer, correctAnswers, inputType, targetValue, result,
      gameResult, gameQuestion, profile, hintUsage, req, res, toCreateGQ,
      call, ret, authSession, store, now>>

callVars == <<call, ret>>

serviceVars == <<authSession, store, now>>

validateVars == <<pc, userAnswer, correctAnswers, inputType, targetValue, result>>

tables == <<gameResult, gameQuestion, profile, hintUsage>>

gameVars ==
    <<gameResult, gameQuestion, profile, hintUsage, req, res, toCreateGQ>>

---------------------------------------------------------------------------
(* Strings *)

RECURSIVE Concat(_)
Concat(ss) == IF ss = <<>> THEN <<>> ELSE Head(ss) \o Concat(Tail(ss))

\* every sequence over S of length 0..n
SeqsUpTo(S, n) == UNION {[1..k -> S] : k \in 0..n}

WhiteSpace == {" ", "\t"}

Punctuation == {".", ",", "!", "?", ";", ":", "'", "\""}

ThaiBlock == {"ko_kai", "sara_a", "mai_ek"}

UpperCase == <<"A", "B", "C", "D", "E", "F", "G", "H", "I", "J", "K", "L", "M",
               "N", "O", "P", "Q", "R", "S", "T", "U", "V", "W", "X", "Y", "Z">>

LowerCase == <<"a", "b", "c", "d", "e", "f", "g", "h", "i", "j", "k", "l", "m",
               "n", "o", "p", "q", "r", "s", "t", "u", "v", "w", "x", "y", "z">>

\* String.prototype.toLowerCase, of one character
toLowerCase(c) ==
    IF \E i \in 1..Len(UpperCase) : UpperCase[i] = c
    THEN LowerCase[CHOOSE i \in 1..Len(UpperCase) : UpperCase[i] = c]
    ELSE c

\* String.prototype.normalize("NFD") of one character of U+0E00..U+0E7F: no
\* character of the Thai block has a canonical decomposition
normalizeNFD(c) == <<c>>

RECURSIVE TrimStart(_)
TrimStart(s) ==
    IF s # <<>> /\ Head(s) \in WhiteSpace THEN TrimStart(Tail(s)) ELSE s

RECURSIVE TrimEnd(_)
TrimEnd(s) ==
    IF s # <<>> /\ s[Len(s)] \in WhiteSpace
    THEN TrimEnd(SubSeq(s, 1, Len(s) - 1))
    ELSE s

trim(s) == TrimEnd(TrimStart(s))

\* replace(/\s+/g, " ")
RECURSIVE CollapseSpaces(_)
CollapseSpaces(s) ==
    IF s = <<>> THEN <<>>
    ELSE IF Head(s) \in WhiteSpace
         THEN <<" ">> \o CollapseSpaces(TrimStart(s))
         ELSE <<Head(s)>> \o CollapseSpaces(Tail(s))

\* replace(/[.,!?;:'"]/g, "")
RemovePunctuation(s) == SelectSeq(s, LAMBDA c : c \notin Punctuation)

\* replace(/[\u0E00-\u0E7F]/g, (match) => match.normalize("NFD"))
DecomposeThai(s) ==
    Concat([i \in 1..Len(s) |->
              IF s[i] \in ThaiBlock THEN normalizeNFD(s[i]) ELSE <<s[i]>>])

normalizeText(text) ==
    DecomposeThai(RemovePunctuation(CollapseSpaces(
        [i \in 1..Len(trim(text)) |-> toLowerCase(trim(text)[i])])))

---------------------------------------------------------------------------
(* JavaScript numbers.  A finite double is the exact rational n/d (d > 0); *)
(* neg is the sign: of a zero, of an infinity, of n otherwise.  "obj" is a *)
(* value that is not a number (a RegExp object, a string).                 *)

MkNum(n, d, negZero) ==
    [k |-> "num", n |-> n, d |-> d, neg |-> IF n = 0 THEN negZero ELSE n < 0]

Infinity(neg) == [k |-> "inf", n |-> 0, d |-> 1, neg |-> neg]

NaN == [k |-> "nan", n |-> 0, d |-> 1, neg |-> FALSE]

Obj == [k |-> "obj", n |-> 0, d |-> 1, neg |-> FALSE]

IsZero(v) == v.k = "num" /\ v.n = 0

Abs(x) == IF x < 0 THEN -x ELSE x

RECURSIVE IntPow(_, _)
IntPow(b, e) == IF e = 0 THEN 1 ELSE b * IntPow(b, e - 1)

\* ToNumber of a RegExp object, and of a string that starts with "/", is NaN
ToNumber(v) == IF v.k = "obj" THEN NaN ELSE v

\* unary -
Negate(v) ==
    CASE v.k = "num" -> MkNum(-v.n, v.d, ~v.neg)
      [] v.k = "inf" -> Infinity(~v.neg)
      [] OTHER -> NaN

AddNumbers(a, b) ==
    IF a.k = "nan" \/ b.k = "nan" THEN NaN
    ELSE IF a.k = "inf" /\ b.k = "inf" THEN (IF a.neg = b.neg THEN a ELSE NaN)
    ELSE IF a.k = "inf" THEN a
    ELSE IF b.k = "inf" THEN b
    ELSE MkNum(a.n * b.d + b.n * a.d, a.d * b.d, a.neg /\ b.neg)

\* binary +: with an operand that is not a number it concatenates strings
Plus(a, b) ==
    IF a.k = "obj" \/ b.k = "obj" THEN Obj ELSE AddNumbers(a, b)

Minus(a, b) == AddNumbers(ToNumber(a), Negate(ToNumber(b)))

MultiplyNumbers(a, b) ==
    IF a.k = "nan" \/ b.k = "nan" THEN NaN
    ELSE IF a.k = "inf" \/ b.k = "inf"
         THEN (IF IsZero(a) \/ IsZero(b) THEN NaN ELSE Infinity(a.neg # b.neg))
    ELSE MkNum(a.n * b.n, a.d * b.d, a.neg # b.neg)

Times(a, b) == MultiplyNumbers(ToNumber(a), ToNumber(b))

DivideNumbers(a, b) ==
    IF a.k = "nan" \/ b.k = "nan" THEN NaN
    ELSE IF a.k = "inf"
         THEN (IF b.k = "inf" THEN NaN ELSE Infinity(a.neg # b.neg))
    ELSE IF b.k = "inf" THEN MkNum(0, 1, a.neg # b.neg)
    ELSE IF b.n = 0
         THEN (IF a.n = 0 THEN NaN ELSE Infinity(a.neg # b.neg))
    ELSE MkNum((IF b.n < 0 THEN -1 ELSE 1) * a.n * b.d, a.d * Abs(b.n),
               a.neg # b.neg)

Divide(a, b) == DivideNumbers(ToNumber(a), ToNumber(b))

\* ** with an integer exponent (the only exponents an expression of the
\* modelled lengths can write); x ** 0 is 1 for every x, NaN included
PowerNumbers(a, b) ==
    CASE b.k = "nan" -> NaN
      [] IsZero(b) -> MkNum(1, 1, FALSE)
      [] b.k = "num" /\ b.n # 0 /\ a.k = "nan" -> NaN
      [] b.k = "num" /\ b.n # 0 /\ b.n % b.d = 0 /\ a.k = "num" ->
            LET e == b.n \div b.d
                odd == e % 2 = 1
            IN  IF a.n = 0
                THEN (IF e > 0 THEN MkNum(0, 1, a.neg /\ odd)
                               ELSE Infinity(a.neg /\ odd))
                ELSE IF e > 0
                THEN MkNum(IntPow(a.n, e), IntPow(a.d, e), FALSE)
                ELSE MkNum((IF a.n < 0 /\ odd THEN -1 ELSE 1) * IntPow(a.d, -e),
                           IntPow(Abs(a.n), -e), FALSE)

Power(a, b) == PowerNumbers(ToNumber(a), ToNumber(b))

---------------------------------------------------------------------------
(* The tokens of the source text of an expression *)

Digits == {"0", "1", "2", "3", "4", "5", "6", "7", "8", "9"}

DigitValue(c) ==
    CASE c = "0" -> 0 [] c = "1" -> 1 [] c = "2" -> 2 [] c = "3" -> 3
      [] c = "4" -> 4 [] c = "5" -> 5 [] c = "6" -> 6 [] c = "7" -> 7
      [] c = "8" -> 8 [] c = "9" -> 9

RECURSIVE DigitsValue(_)
DigitsValue(ds) ==
    IF ds = <<>> THEN 0
    ELSE 10 * DigitsValue(SubSeq(ds, 1, Len(ds) - 1)) + DigitValue(ds[Len(ds)])

Token(t, v) == [t |-> t, v |-> v]

Op(t) == Token(t, NaN)

\* a token no expression contains: the text is a SyntaxError
BadToken == Op("bad")

\* the first index >= i of s that holds no digit
RECURSIVE DigitRunEnd(_, _)
DigitRunEnd(s, i) ==
    IF i <= Len(s) /\ s[i] \in Digits THEN DigitRunEnd(s, i + 1) ELSE i

\* A numeric literal starting at s[i] (a digit or "."): digits, then
\* optionally "." and digits.  A lone "." is no literal, and strict mode
\* forbids an integer part of several digits that starts with 0.
LexNumber(s, i) ==
    LET intEnd == DigitRunEnd(s, i)
        hasDot == intEnd <= Len(s) /\ s[intEnd] = "."
        end == IF hasDot THEN DigitRunEnd(s, intEnd + 1) ELSE intEnd
        int == SubSeq(s, i, intEnd - 1)
        frac == IF hasDot THEN SubSeq(s, intEnd + 1, end - 1) ELSE <<>>
    IN  [next |-> end,
         tok |-> IF (int = <<>> /\ frac = <<>>) \/ (Len(int) > 1 /\ int[1] = "0")
                 THEN BadToken
                 ELSE Token("num", MkNum(DigitsValue(int \o frac),
                                         IntPow(10, Len(frac)), FALSE))]

\* the index of the first c at or after s[i], or 0
RECURSIVE IndexOf(_, _, _)
IndexOf(s, c, i) ==
    IF i > Len(s) THEN 0
    ELSE IF s[i] = c THEN i
    ELSE IndexOf(s, c, i + 1)

\* the index of the first "*/" at or after s[i], or 0
RECURSIVE CommentEnd(_, _)
CommentEnd(s, i) ==
    IF i + 1 > Len(s) THEN 0
    ELSE IF s[i] = "*" /\ s[i + 1] = "/" THEN i
    ELSE CommentEnd(s, i + 1)

\* Whether the body of a regular-expression literal is a pattern: groups
\* balance, and a quantifier, * or +, follows an atom that has none yet.
RECURSIVE PatternOk(_, _, _, _)
PatternOk(body, i, depth, atom) ==
    IF i > Len(body) THEN depth = 0
    ELSE CASE body[i] = "(" -> PatternOk(body, i + 1, depth + 1, FALSE)
           [] body[i] = ")" ->
                depth > 0 /\ PatternOk(body, i + 1, depth - 1, TRUE)
           [] body[i] \in {"*", "+"} ->
                atom /\ PatternOk(body, i + 1, depth, FALSE)
           [] OTHER -> PatternOk(body, i + 1, depth, TRUE)

\* The tokens of s from s[i] on; operand: the previous token ends an
\* operand, so that a "/" divides and does not open a regular expression.
\* "//" comments out the rest of the line (the text has one line).  ++ and
\* -- have no operand they can apply to and a flag of a regular expression
\* cannot be a digit: each makes the text a SyntaxError.
RECURSIVE Lex(_, _, _)
Lex(s, i, operand) ==
    IF i > Len(s) THEN <<>>
    ELSE LET c == s[i]
             nxt == IF i < Len(s) THEN s[i + 1] ELSE "end"
         IN
         CASE c \in WhiteSpace -> Lex(s, i + 1, operand)
           [] c \in Digits \cup {"."} ->
                LET r == LexNumber(s, i)
                IN  IF r.tok = BadToken THEN <<BadToken>>
                    ELSE <<r.tok>> \o Lex(s, r.next, TRUE)
           [] c = "/" /\ nxt = "/" -> <<>>
           [] c = "/" /\ nxt = "*" ->
                LET j == CommentEnd(s, i + 2)
                IN  IF j = 0 THEN <<BadToken>> ELSE Lex(s, j + 2, operand)
           [] c = "/" /\ nxt \notin {"/", "*"} /\ operand ->
                <<Op("/")>> \o Lex(s, i + 1, FALSE)
           [] c = "/" /\ nxt \notin {"/", "*"} /\ ~operand ->
                LET j == IndexOf(s, "/", i + 1)
                IN  IF \/ j = 0
                       \/ ~PatternOk(SubSeq(s, i + 1, j - 1), 1, 0, FALSE)
                       \/ (j < Len(s) /\ s[j + 1] \in Digits)
                    THEN <<BadToken>>
                    ELSE <<Token("regex", Obj)>> \o Lex(s, j + 1, TRUE)
           [] c \in {"+", "-"} /\ nxt = c -> <<BadToken>>
           [] c \in {"+", "-"} /\ nxt # c -> <<Op(c)>> \o Lex(s, i + 1, FALSE)
           [] c = "*" /\ nxt = "*" -> <<Op("**")>> \o Lex(s, i + 2, FALSE)
           [] c = "*" /\ nxt # "*" -> <<Op("*")>> \o Lex(s, i + 1, FALSE)
           [] c = "(" -> <<Op("(")>> \o Lex(s, i + 1, FALSE)
           [] c = ")" -> <<Op(")")>> \o Lex(s, i + 1, TRUE)
           [] OTHER -> <<BadToken>>

---------------------------------------------------------------------------
(* The value of an expression: a parse is [ok, v, i, unary], the value, the *)
(* index of the token after it and whether it is a unary expression, or    *)
(* Fail where the tokens are no expression or the expression calls a value *)
(* (a TypeError: no value is a function).                                  *)

Parsed(v, i, unary) == [ok |-> TRUE, v |-> v, i |-> i, unary |-> unary]

Fail == [ok |-> FALSE, v |-> NaN, i |-> 0, unary |-> FALSE]

At(toks, i) == IF i <= Len(toks) THEN toks[i].t ELSE "end"

\* the binary operators, by precedence
Precedence(t) ==
    CASE t \in {"+", "-"} -> 1
      [] t \in {"*", "/"} -> 2
      [] t = "**" -> 3
      [] OTHER -> 0

ApplyBinary(t, a, b) ==
    CASE t = "+" -> Plus(a, b)
      [] t = "-" -> Minus(a, b)
      [] t = "*" -> Times(a, b)
      [] t = "/" -> Divide(a, b)
      [] t = "**" -> Power(a, b)

ApplyUnary(t, a) == IF t = "-" THEN Negate(ToNumber(a)) ELSE ToNumber(a)

\* an operand followed by "(" is called
NotCalled(toks, p) == IF p.ok /\ At(toks, p.i) = "(" THEN Fail ELSE p

\* the parse of "( expression" once the expression is parsed: ")" closes it
Closed(toks, r) ==
    IF r.ok /\ At(toks, r.i) = ")" THEN Parsed(r.v, r.i + 1, FALSE) ELSE Fail

Signed(t, r) == IF r.ok THEN Parsed(ApplyUnary(t, r.v), r.i, TRUE) ELSE Fail

Combined(t, l, r) ==
    IF r.ok THEN Parsed(ApplyBinary(t, l.v, r.v), r.i, FALSE) ELSE Fail

RECURSIVE ParseOperand(_, _)
RECURSIVE ParseBinary(_, _, _)
RECURSIVE Climb(_, _, _)

\* UnaryExpression: + or - before a UnaryExpression, a literal, or a
\* parenthesized expression
ParseOperand(toks, i) ==
    CASE At(toks, i) \in {"+", "-"} ->
            Signed(At(toks, i), ParseOperand(toks, i + 1))
      [] At(toks, i) \in {"num", "regex"} ->
            NotCalled(toks, Parsed(toks[i].v, i + 1, FALSE))
      [] At(toks, i) = "(" ->
            NotCalled(toks, Closed(toks, ParseBinary(toks, i + 1, 1)))
      [] OTHER -> Fail

\* Having parsed l, take the binary operators of precedence >= min that
\* follow.  + - * / associate to the left; ** associates to the right and
\* its left operand may not be a unary expression.
Climb(toks, l, min) ==
    IF ~l.ok \/ Precedence(At(toks, l.i)) < min THEN l
    ELSE IF At(toks, l.i) = "**" /\ l.unary THEN Fail
    ELSE Climb(toks,
               Combined(At(toks, l.i), l,
                        ParseBinary(toks, l.i + 1,
                                    IF At(toks, l.i) = "**"
                                    THEN 3
                                    ELSE Precedence(At(toks, l.i)) + 1)),
               min)

\* an expression whose binary operators have precedence >= min
ParseBinary(toks, i, min) == Climb(toks, ParseOperand(toks, i), min)

Thrown == [k |-> "throw", n |-> 0, d |-> 1, neg |-> FALSE]

\* Function(`"use strict"; return (${sanitized})`)(): the value returned,
\* or Thrown
RunFunction(sanitized) ==
    LET toks == Lex(<<"(">> \o sanitized \o <<")">>, 1, FALSE)
        r == ParseBinary(toks, 1, 1)
    IN  IF r.ok /\ r.i = Len(toks) + 1 THEN r.v ELSE Thrown

---------------------------------------------------------------------------
(* AnswerValidator *)

Return(v) == [threw |-> FALSE, value |-> v]

Throw == [threw |-> TRUE, value |-> FALSE]

\* a faulty variant: the expected answers are compared as stored, not normalized
validateTextAnswerRawExpected(userAnswer_, correctAnswers_) ==
    LET normalizedUser == normalizeText(userAnswer_)
    IN  Return(\E i \in 1..Len(correctAnswers_) : correctAnswers_[i] = normalizedUser)

\* a faulty variant: only correctAnswers[0] is compared; normalizing it raises a
\* TypeError when the list is empty
validateTextAnswerFirstOnly(userAnswer_, correctAnswers_) ==
    IF correctAnswers_ = <<>> THEN Throw
    ELSE Return(normalizeText(correctAnswers_[1]) = normalizeText(userAnswer_))

validateTextAnswer(userAnswer_, correctAnswers_) ==
    LET normalizedUser == normalizeText(userAnswer_)
    IN  Return(\E i \in 1..Len(correctAnswers_) :
                   normalizeText(correctAnswers_[i]) = normalizedUser)

\* correctAnswers.includes(userAnswer)
validateMultipleChoice(userAnswer_, correctAnswers_) ==
    Return(\E i \in 1..Len(correctAnswers_) : correctAnswers_[i] = userAnswer_)

\* expression.replace(/[^0-9+\-*/().\s]/g, "")
SanitizedChars == Digits \cup {"+", "-", "*", "/", "(", ")", "."} \cup WhiteSpace

\* a faulty variant: the decimal point is removed as well
sanitizeNoPoint(expression) ==
    SelectSeq(expression, LAMBDA c : c \in SanitizedChars \ {"."})

sanitize(expression) == SelectSeq(expression, LAMBDA c : c \in SanitizedChars)

\* The inner try/catch turns every exception, its own "Invalid result"
\* included, into "Failed to evaluate expression".
evaluateExpression(expression) ==
    LET sanitized == sanitize(expression)
        r == RunFunction(sanitized)
    IN  IF sanitized = <<>> THEN Thrown
        ELSE IF r.k \in {"throw", "obj", "nan"} THEN Thrown
        ELSE r

\* Math.abs(result - targetValue) < 0.001, in exact arithmetic
WithinTolerance(r, target) ==
    r.k = "num" /\ 1000 * Abs(r.n * target.d - target.n * r.d) < r.d * target.d

\* a faulty variant: no try/catch around the evaluation
validateCalculationNoCatch(userAnswer_, targetValue_) ==
    IF targetValue_ = <<>> THEN Return(FALSE)
    ELSE LET r == evaluateExpression(userAnswer_)
         IN  IF r.k = "throw" THEN Throw
             ELSE Return(WithinTolerance(r, targetValue_[1]))

\* a faulty variant: no check of the target; in result - targetValue a null is 0
validateCalculationNullAsZero(userAnswer_, targetValue_) ==
    LET r == evaluateExpression(userAnswer_)
        t == IF targetValue_ = <<>> THEN MkNum(0, 1, FALSE) ELSE targetValue_[1]
    IN  IF r.k = "throw" THEN Return(FALSE)
        ELSE Return(WithinTolerance(r, t))

validateCalculation(userAnswer_, targetValue_) ==
    IF targetValue_ = <<>> THEN Return(FALSE)
    ELSE LET r == evaluateExpression(userAnswer_)
         IN  IF r.k = "throw" THEN Return(FALSE)
             ELSE Return(WithinTolerance(r, targetValue_[1]))

\* a faulty variant: the default branch grades as TEXT
validateDefaultText(userAnswer_, correctAnswers_, inputType_, targetValue_) ==
    CASE inputType_ \in {"MULTIPLE_CHOICE_3", "MULTIPLE_CHOICE_4"} ->
            validateMultipleChoice(userAnswer_, correctAnswers_)
      [] inputType_ = "CALCULATION" -> validateCalculation(userAnswer_, targetValue_)
      [] OTHER -> validateTextAnswer(userAnswer_, correctAnswers_)

\* a faulty variant: the grade of the call before is remembered and, once
\* it was correct, returned again
validateRemembering(userAnswer_, correctAnswers_, inputType_, targetValue_) ==
    IF result.value THEN Return(TRUE)
    ELSE CASE inputType_ = "TEXT" -> validateTextAnswer(userAnswer_, correctAnswers_)
           [] inputType_ \in {"MULTIPLE_CHOICE_3", "MULTIPLE_CHOICE_4"} ->
                 validateMultipleChoice(userAnswer_, correctAnswers_)
           [] inputType_ = "CALCULATION" ->
                 validateCalculation(userAnswer_, targetValue_)
           [] OTHER -> Return(FALSE)

validate(userAnswer_, correctAnswers_, inputType_, targetValue_) ==
    CASE inputType_ = "TEXT" -> validateTextAnswer(userAnswer_, correctAnswers_)
      [] inputType_ \in {"MULTIPLE_CHOICE_3", "MULTIPLE_CHOICE_4"} ->
            validateMultipleChoice(userAnswer_, correctAnswers_)
      [] inputType_ = "CALCULATION" -> validateCalculation(userAnswer_, targetValue_)
      [] OTHER -> Return(FALSE)

---------------------------------------------------------------------------
(* The game routes: what POST /start and POST /complete compute *)

CATEGORY_LIST == <<"HEALTH", "COGNITION", "DIGITAL", "FINANCE">>

Categories == {CATEGORY_LIST[i] : i \in 1..Len(CATEGORY_LIST)}

\* the registered users; each has a Profile row from sign-up
Users == {"u1", "u2"}

\* the Question table, each question with its first translation
Question ==
    [q1 |-> [category |-> "HEALTH", difficulty |-> 1, inputType |-> "TEXT",
             correctAnswers |-> << <<"A">> >>, targetValue |-> <<>>],
     q2 |-> [category |-> "COGNITION", difficulty |-> 2,
             inputType |-> "MULTIPLE_CHOICE_4",
             correctAnswers |-> << <<"b">>, <<"c">> >>, targetValue |-> <<>>],
     q3 |-> [category |-> "FINANCE", difficulty |-> 3,
             inputType |-> "CALCULATION",
             correctAnswers |-> << <<"1", "0">> >>,
             targetValue |-> <<MkNum(10, 1, FALSE)>>],
     q4 |-> [category |-> "DIGITAL", difficulty |-> 5, inputType |-> "TEXT",
             correctAnswers |-> << <<"a", " ", "b">> >>, targetValue |-> <<>>],
     q5 |-> [category |-> "HEALTH", difficulty |-> 1,
             inputType |-> "CALCULATION",
             correctAnswers |-> <<>>, targetValue |-> <<>>]]

RECURSIVE SumSeq(_)
SumSeq(ns) == IF ns = <<>> THEN 0 ELSE Head(ns) + SumSeq(Tail(ns))

Min(a, b) == IF a < b THEN a ELSE b

\* the questions of one category that /start serves: a sample of at most
\* count of them
fetchQuestionsOfCategory(cat, count) ==
    {S \in SUBSET {id \in DOMAIN Question : Question[id].category = cat} :
        Cardinality(S) =
            Min(count, Cardinality({id \in DOMAIN Question :
                                       Question[id].category = cat}))}

\* String(s).trim().toLowerCase()
lowered(s) == [i \in 1..Len(trim(s)) |-> toLowerCase(trim(s)[i])]

\* chosen.replace(/[^0-9+\-*/\s()]/g, "")
sanitized(chosen) ==
    SelectSeq(chosen, LAMBDA c :
        c \in Digits \cup {"+", "-", "*", "/", "(", ")"} \cup WhiteSpace)

\* whether isCorrect is truthy once the answer a to the question q is graded
isCorrect(a, q) ==
    LET corrList == [i \in 1..Len(q.correctAnswers) |->
                        lowered(q.correctAnswers[i])]
        chosen == lowered(a.chosen)
    IN  IF q.inputType = "CALCULATION"
        THEN /\ q.targetValue # <<>>
             /\ LET calculatedResult == RunFunction(sanitized(chosen))
                IN  /\ calculatedResult.k # "throw"
                    /\ WithinTolerance(calculatedResult, q.targetValue[1])
        ELSE /\ chosen # <<>>
             /\ \E i \in 1..Len(corrList) : corrList[i] = chosen

\* chosen && corrList.includes(chosen) is the empty string, not a boolean,
\* when chosen is empty
isBoolean(a, q) == q.inputType = "CALCULATION" \/ lowered(a.chosen) # <<>>

\* a faulty variant: the highest step starts above 3
baseScoreAbove3(difficulty) ==
    IF difficulty > 3 THEN 30 ELSE IF difficulty = 2 THEN 20 ELSE 10

baseScore(difficulty) ==
    IF difficulty >= 3 THEN 30 ELSE IF difficulty = 2 THEN 20 ELSE 10

\* a faulty variant: the base score is added whether or not the answer is correct
pointsAlways(correct, difficulty) == baseScore(difficulty)

\* what one graded answer adds to serverScore
points(correct, difficulty) == IF correct THEN baseScore(difficulty) ELSE 0

\* the answers the loop grades: if (!q) continue
graded(answers) == SelectSeq(answers, LAMBDA a : a.id \in DOMAIN Question)

\* the rows of createMany for the session id, one for each graded answer
rows(answers, id) ==
    [i \in 1..Len(graded(answers)) |->
        LET a == graded(answers)[i]
        IN  [gameResultId |-> id, questionId |-> a.id, userAnswer |-> a.chosen,
             isCorrect |-> isCorrect(a, Question[a.id]),
             timeSpent |-> a.timeSpent]]

\* the counters when the loop that pushed the rows toCreate ends
serverScore(toCreate) ==
    SumSeq([i \in 1..Len(toCreate) |->
               points(toCreate[i].isCorrect,
                      Question[toCreate[i].questionId].difficulty)])

\* a faulty variant: every graded answer is counted as correct
totalCorrectOfAll(toCreate) == Len(toCreate)

totalCorrect(toCreate) == Len(SelectSeq(toCreate, LAMBDA r : r.isCorrect))

categoryStats(toCreate) ==
    [c \in Categories |->
        [correct |-> Len(SelectSeq(toCreate, LAMBDA r :
                            Question[r.questionId].category = c /\ r.isCorrect)),
         total |-> Len(SelectSeq(toCreate, LAMBDA r :
                            Question[r.questionId].category = c))]]

\* The mantissa of a double has 53 bits.
MantissaBits == 53

\* a mantissa is five limbs <<1, l2, l3, l4, l5>>, the first of one bit and
\* the others of 13, and the double [m, exp] is m * 2^(exp - 52)
Limb == 2^13

\* the limbs of m, their overflow carried to the left
Carry(m) ==
    LET c5 == m[5]
        c4 == m[4] + c5 \div Limb
        c3 == m[3] + c4 \div Limb
        c2 == m[2] + c3 \div Limb
        c1 == m[1] + c2 \div Limb
    IN  <<c1, c2 % Limb, c3 % Limb, c4 % Limb, c5 % Limb>>

\* round to nearest, ties to even: the 53 bits m followed by a tail that is
\* above, at or below one half of the last place (tail is > 0, 0 or < 0)
RoundToDouble(m, exp, tail) ==
    LET up == tail > 0 \/ (tail = 0 /\ m[5] % 2 = 1)
        sum == Carry([m EXCEPT ![5] = @ + 1])
    IN  IF ~up THEN [m |-> m, exp |-> exp]
        ELSE IF sum[1] = 2 THEN [m |-> <<1, 0, 0, 0, 0>>, exp |-> exp + 1]
        ELSE [m |-> sum, exp |-> exp]

\* the double correct / total, for positive integers below 2^14
DivideDoubles(correct, total) ==
    LET exp == CHOOSE e \in -14..14 :
                   IF e < 0 THEN total <= correct * 2^(0 - e)
                                 /\ correct * 2^(0 - e) < 2 * total
                   ELSE total * 2^e <= correct /\ correct < total * 2^(e + 1)
        c == IF exp < 0 THEN correct * 2^(0 - exp) ELSE correct
        t == IF exp < 0 THEN total ELSE total * 2^exp
        r1 == c - t
        r2 == (r1 * Limb) % t
        r3 == (r2 * Limb) % t
        r4 == (r3 * Limb) % t
        r5 == (r4 * Limb) % t
        quotient == <<1, (r1 * Limb) \div t, (r2 * Limb) \div t,
                      (r3 * Limb) \div t, (r4 * Limb) \div t>>
    IN  RoundToDouble(quotient, exp, 2 * r5 - t)

\* the double x * 100
Times100(x) ==
    LET product == Carry([i \in 1..5 |-> 100 * x.m[i]])
        s == IF product[1] < 128 THEN 6 ELSE 7
        shifted == [i \in 1..5 |->
                       IF i = 1 THEN product[1] \div 2^s
                       ELSE ((product[i - 1] % 2^s) * Limb + product[i])
                                \div 2^s]
    IN  RoundToDouble(shifted, x.exp + s, 2 * (product[5] % 2^s) - 2^s)

\* Math.round(x) of a positive double below 2^13: floor(x + 0.5)
MathRound(x) ==
    LET n == MantissaBits - 1 - x.exp
        top == x.m[1] * Limb + x.m[2]
    IN  IF n > MantissaBits THEN 0
        ELSE IF n = MantissaBits THEN 1
        ELSE (top \div 2^(n - 39)) + ((top \div 2^(n - 40)) % 2)

\* Math.round((correct / total) * 100), in double arithmetic
calculateMastery(stats) ==
    IF stats.total > 0
    THEN IF stats.correct = 0 THEN 0
         ELSE MathRound(Times100(DivideDoubles(stats.correct, stats.total)))
    ELSE 0

\* a faulty variant: the rows stored before are counted with the new ones
masteryScoresAccumulated(toCreate) ==
    [healthMastery |->
         calculateMastery(categoryStats(gameQuestion \o toCreate)["HEALTH"]),
     cognitionMastery |->
         calculateMastery(categoryStats(gameQuestion \o toCreate)["COGNITION"]),
     digitalMastery |->
         calculateMastery(categoryStats(gameQuestion \o toCreate)["DIGITAL"]),
     financeMastery |->
         calculateMastery(categoryStats(gameQuestion \o toCreate)["FINANCE"])]

masteryScores(toCreate) ==
    [healthMastery |-> calculateMastery(categoryStats(toCreate)["HEALTH"]),
     cognitionMastery |-> calculateMastery(categoryStats(toCreate)["COGNITION"]),
     digitalMastery |-> calculateMastery(categoryStats(toCreate)["DIGITAL"]),
     financeMastery |-> calculateMastery(categoryStats(toCreate)["FINANCE"])]

NoRequest == [route |-> "none", userId |-> "none", sessionId |-> 0]

Response(status, sessionId, score, correct, mastery) ==
    [status |-> status, sessionId |-> sessionId, serverScore |-> score,
     correct |-> correct, masteryScores |-> mastery]

NoMastery ==
    [healthMastery |-> 0, cognitionMastery |-> 0, digitalMastery |-> 0,
     financeMastery |-> 0]

NoResponse == Response(0, 0, 0, 0, NoMastery)

\* no game has been started; every user has the profile sign-up created
NoGame ==
    /\ gameResult = <<>>
    /\ gameQuestion = <<>>
    /\ profile = [u \in Users |->
                     [totalScore |-> 0, gamesPlayed |-> 0,
                      totalHintsUsed |-> 0] @@ NoMastery]
    /\ hintUsage = <<>>
    /\ authSession = <<>>
    /\ store = <<>>
    /\ now = 0
    /\ req = NoRequest
    /\ res = NoResponse
    /\ toCreateGQ = <<>>

\* GAME_CONFIG, the part the scoring functions read
GAME_CONFIG ==
    [SCORE_MULTIPLIERS |-> [EASY |-> 10, MEDIUM |-> 20, HARD |-> 30]]

\* calculateBaseScore of the game service
calculateBaseScore(difficulty) ==
    IF difficulty >= 3 THEN GAME_CONFIG.SCORE_MULTIPLIERS.HARD
    ELSE IF difficulty = 2 THEN GAME_CONFIG.SCORE_MULTIPLIERS.MEDIUM
    ELSE GAME_CONFIG.SCORE_MULTIPLIERS.EASY

\* no scoring function is called
NoScoring == call = [fn |-> "none", args |-> <<>>] /\ ret = <<>>

---------------------------------------------------------------------------
(* The calls of validate the model makes *)

MaxTextLen == 3

MaxCalcLen == 3

MaxExpected == 2

InputTypes == {"TEXT", "MULTIPLE_CHOICE_3", "MULTIPLE_CHOICE_4", "CALCULATION"}

\* a value outside the InputType enumeration
UnknownType == "TRUE_FALSE"

TextAlphabet == {"a", "A", " ", "!"}

CalcAlphabet == {"0", "5", "+", "-", "*", "/", "(", ")", ".", " ", "D"}

Str_Answer == <<" ", "A", "n", "s", "w", "e", "r", "!", " ">>

Str_answer == <<"a", "n", "s", "w", "e", "r">>

Str_vitamin_c == <<"v", "i", "t", "a", "m", "i", "n", " ", "c">>

Str_vitamin_C == <<"v", "i", "t", "a", "m", "i", "n", " ", "C">>

Str_Vitamin_C_spaced == <<"V", "i", "t", "a", "m", "i", "n", "\t", " ", "C", ".">>

Str_thai == <<"ko_kai", "sara_a", "mai_ek">>

Str_vitamin_d == <<"v", "i", "t", "a", "m", "i", "n", " ", "d">>

Str_5plus5 == <<"5", "+", "5">>

Str_5plus5_0009 == <<"5", "+", "5", ".", "0", "0", "0", "9">>

Str_5plus5_002 == <<"5", "+", "5", ".", "0", "0", "2">>

Str_DROP_TABLE == <<"D", "R", "O", "P", " ", "T", "A", "B", "L", "E", ";", "5", "+", "5">>

TextSubmissions ==
    SeqsUpTo(TextAlphabet, MaxTextLen)
        \cup {Str_Answer, Str_answer, Str_vitamin_c, Str_vitamin_C,
              Str_Vitamin_C_spaced, Str_thai, Str_vitamin_d}

ExpectedPool == {<<"a">>, <<"A", " ", "a">>, <<"a", "!">>}

ExpectedLists ==
    SeqsUpTo(ExpectedPool, MaxExpected)
        \cup {<<Str_answer>>, <<Str_vitamin_c, Str_vitamin_C, Str_thai>>}

CalcSubmissions ==
    SeqsUpTo(CalcAlphabet, MaxCalcLen)
        \cup {Str_5plus5, Str_5plus5_0009, Str_5plus5_002, Str_DROP_TABLE}

Target(n) == <<MkNum(n, 1, FALSE)>>

TargetValues == {<<>>, Target(10), Target(5), Target(0)}

NoResult == [threw |-> FALSE, value |-> FALSE]

Init ==
    /\ NoGame
    /\ NoScoring
    /\ pc = "call"
    /\ result = NoResult
    /\ \/ /\ inputType \in (InputTypes \ {"CALCULATION"}) \cup {UnknownType}
          /\ userAnswer \in TextSubmissions
          /\ correctAnswers \in ExpectedLists
          /\ targetValue = <<>>
       \/ /\ inputType \in {"CALCULATION", UnknownType}
          /\ userAnswer \in CalcSubmissions
          /\ correctAnswers \in {<<>>, <<Str_5plus5>>}
          /\ targetValue \in TargetValues

\* one call of validate
Validate ==
    /\ pc = "call"
    /\ result' = validate(userAnswer, correctAnswers, inputType, targetValue)
    /\ pc' = "done"
    /\ UNCHANGED <<userAnswer, correctAnswers, inputType, targetValue>>
    /\ UNCHANGED gameVars
    /\ UNCHANGED callVars
    /\ UNCHANGED serviceVars

Next == Validate

Spec == Init /\ [][Next]_vars

---------------------------------------------------------------------------
(* The game sessions the model plays *)

MaxSessions == 2

MaxCompletes == 2

Answer(id, chosen, timeSpent) ==
    [id |-> id, chosen |-> chosen, timeSpent |-> timeSpent]

\* the answers lists of the /complete request bodies
AnswerLists ==
    LET textRight == Answer("q1", <<" ", "a", " ">>, 3)
        textWrong == Answer("q1", <<"b">>, 1)
        textEmpty == Answer("q1", <<>>, 0)
        choiceRight == Answer("q2", <<"c">>, 2)
        calcRight == Answer("q3", Str_5plus5, 4)
        calcWrong == Answer("q3", Str_5plus5_0009, 4)
        hardRight == Answer("q4", <<"A", " ", "b">>, 5)
        noTarget == Answer("q5", <<"5">>, 1)
        unknown == Answer("q9", <<"a">>, 1)
    IN  {<<>>,
         <<textRight, textWrong, textRight>>,
         <<unknown, choiceRight, calcWrong>>,
         <<calcRight, hardRight, choiceRight, textRight, noTarget>>,
         <<textWrong, textEmpty>>}

\* the grader is not called in a game
NoCall ==
    /\ pc = "idle"
    /\ userAnswer = <<>>
    /\ correctAnswers = <<>>
    /\ inputType = "TEXT"
    /\ targetValue = <<>>
    /\ result = NoResult

GameInit == NoCall /\ NoGame /\ NoScoring

\* a faulty variant: any user's GameResult is taken for the user's own
ownedByAnyone(userId, sessionId) == sessionId \in 1..Len(gameResult)

\* findUnique gives a GameResult and it is the user's own
owned(userId, sessionId) ==
    /\ sessionId \in 1..Len(gameResult)
    /\ gameResult[sessionId].userId = userId

\* POST /start by the user userId
Start(userId) ==
    /\ Len(gameResult) < MaxSessions
    /\ \E questionList \in
            [1..Len(CATEGORY_LIST) ->
                UNION {fetchQuestionsOfCategory(CATEGORY_LIST[i], 10) :
                          i \in 1..Len(CATEGORY_LIST)}] :
          /\ \A i \in 1..Len(CATEGORY_LIST) :
                questionList[i] \in
                    fetchQuestionsOfCategory(CATEGORY_LIST[i], 10)
          /\ gameResult' =
                Append(gameResult,
                       [userId |-> userId, category |-> "HEALTH", score |-> 0,
                        totalQuestions |->
                            SumSeq([i \in 1..Len(CATEGORY_LIST) |->
                                       Cardinality(questionList[i])]),
                        correctAnswers |-> 0, timeSpent |-> 0,
                        isCompleted |-> FALSE])
    /\ req' = [route |-> "/start", userId |-> userId, sessionId |-> 0]
    /\ res' = Response(200, Len(gameResult) + 1, 0, 0, NoMastery)
    /\ UNCHANGED <<gameQuestion, profile, hintUsage, toCreateGQ>>
    /\ UNCHANGED validateVars
    /\ UNCHANGED callVars
    /\ UNCHANGED serviceVars

\* POST /complete: the session does not exist or is another user's; the
\* handler returns before it reads the answers
CompleteNotFound(userId, sessionId) ==
    /\ ~owned(userId, sessionId)
    /\ req' = [route |-> "/complete", userId |-> userId, sessionId |-> sessionId]
    /\ res' = Response(404, 0, 0, 0, NoMastery)
    /\ toCreateGQ' = <<>>
    /\ UNCHANGED tables
    /\ UNCHANGED validateVars
    /\ UNCHANGED callVars
    /\ UNCHANGED serviceVars

\* POST /complete: a row whose isCorrect is not a boolean is refused by the
\* database client; the transaction writes nothing
CompleteFailed(userId, sessionId, answers) ==
    /\ owned(userId, sessionId)
    /\ \E i \in 1..Len(graded(answers)) :
          ~isBoolean(graded(answers)[i], Question[graded(answers)[i].id])
    /\ req' = [route |-> "/complete", userId |-> userId, sessionId |-> sessionId]
    /\ res' = Response(500, 0, 0, 0, NoMastery)
    /\ toCreateGQ' = <<>>
    /\ UNCHANGED tables
    /\ UNCHANGED validateVars
    /\ UNCHANGED callVars
    /\ UNCHANGED serviceVars

\* POST /complete: the answers are graded and the transaction commits; a
\* falsy isCorrect is stored as false
Complete(userId, sessionId, answers) ==
    /\ owned(userId, sessionId)
    /\ Cardinality(UNION {{u} \X (1..profile[u].gamesPlayed) : u \in Users})
          < MaxCompletes
    /\ toCreateGQ' = rows(answers, sessionId)
    /\ gameQuestion' = gameQuestion \o toCreateGQ'
    /\ hintUsage' = hintUsage
    /\ gameResult' =
          [gameResult EXCEPT ![sessionId] =
              [@ EXCEPT !.score = serverScore(toCreateGQ'),
                        !.correctAnswers = totalCorrect(toCreateGQ'),
                        !.totalQuestions = Len(answers),
                        !.isCompleted = TRUE]]
    /\ profile' =
          [profile EXCEPT ![userId] =
              [totalScore |-> @.totalScore + serverScore(toCreateGQ'),
               gamesPlayed |-> @.gamesPlayed + 1,
               totalHintsUsed |-> @.totalHintsUsed]
                  @@ masteryScores(toCreateGQ')]
    /\ req' = [route |-> "/complete", userId |-> userId, sessionId |-> sessionId]
    /\ res' = Response(200, sessionId, serverScore(toCreateGQ'),
                       totalCorrect(toCreateGQ'), masteryScores(toCreateGQ'))
    /\ UNCHANGED validateVars
    /\ UNCHANGED callVars
    /\ UNCHANGED serviceVars

GameNext ==
    \/ \E userId \in Users : Start(userId)
    \/ \E userId \in Users, sessionId \in 1..MaxSessions :
          CompleteNotFound(userId, sessionId)
    \/ \E userId \in Users, sessionId \in 1..MaxSessions,
          answers \in AnswerLists :
          \/ CompleteFailed(userId, sessionId, answers)
          \/ Complete(userId, sessionId, answers)

GameSpec == GameInit /\ [][GameNext]_vars

\* ---- GET /session/:id ----

\* gr.totalQuestions ? (gr.correctAnswers / gr.totalQuestions) * 100 : 0
masteryPercent(gr) ==
    IF gr.totalQuestions # 0 /\ gr.correctAnswers # 0
    THEN Times100(DivideDoubles(gr.correctAnswers, gr.totalQuestions))
    ELSE [m |-> <<0, 0, 0, 0, 0>>, exp |-> 0]

\* GET /session/:id: the session does not exist or is another user's
GetSessionNotFound(userId, id) ==
    /\ ~owned(userId, id)
    /\ req' = [route |-> "/session/:id", userId |-> userId, sessionId |-> id]
    /\ res' = [status |-> 404, ok |-> FALSE]
    /\ UNCHANGED <<tables, toCreateGQ>>
    /\ UNCHANGED validateVars
    /\ UNCHANGED callVars
    /\ UNCHANGED serviceVars

\* GET /session/:id: the user's own session with its graded questions
GetSession(userId, id) ==
    /\ owned(userId, id)
    /\ req' = [route |-> "/session/:id", userId |-> userId, sessionId |-> id]
    /\ res' = LET gr == gameResult[id]
                  gameQuestions ==
                      SelectSeq(gameQuestion, LAMBDA gq : gq.gameResultId = id)
              IN  [status |-> 200, sessionId |-> id, score |-> gr.score,
                   correctAnswers |-> gr.correctAnswers,
                   totalQuestions |-> gr.totalQuestions,
                   category |-> "MIXED",
                   masteryPercent |-> masteryPercent(gr),
                   questions |->
                       [i \in 1..Len(gameQuestions) |->
                           [id |-> gameQuestions[i].questionId,
                            isCorrect |-> gameQuestions[i].isCorrect]]]
    /\ UNCHANGED <<tables, toCreateGQ>>
    /\ UNCHANGED validateVars
    /\ UNCHANGED callVars
    /\ UNCHANGED serviceVars

\* the sessions are started, completed with one of the lists of three
\* answers, and read
SessionNext ==
    \/ \E userId \in Users : Start(userId)
    \/ \E userId \in Users, sessionId \in 1..MaxSessions :
          CompleteNotFound(userId, sessionId)
    \/ \E userId \in Users, sessionId \in 1..MaxSessions :
          \E answers \in {l \in AnswerLists : Len(l) = 3} :
              Complete(userId, sessionId, answers)
    \/ \E userId \in Users, id \in 1..MaxSessions : GetSessionNotFound(userId, id)
    \/ \E userId \in Users, id \in 1..MaxSessions : GetSession(userId, id)

SessionSpec == GameInit /\ [][SessionNext]_vars

\* ---- game routes that store what the client reports ----

\* the characters of the user ids
UserIdText ==
    [u1 |-> <<"u", "1">>, u2 |-> <<"u", "2">>,
     anon_1 |-> <<"a", "n", "o", "n", "_", "1">>]

\* s.startsWith(prefix)
startsWith(s, prefix) ==
    Len(s) >= Len(prefix) /\ SubSeq(s, 1, Len(prefix)) = prefix

\* the user ids that start with "anon_"
Anonymous == {"anon_1"}

\* a faulty variant: no player is taken for anonymous
isAnonymousNever(userId) == FALSE

isAnonymous(userId) ==
    startsWith(UserIdText[userId], <<"a", "n", "o", "n", "_">>)

\* the /complete request bodies without the session id: the answers with the
\* client's isCorrect, finalScore, finalCorrect and categoryStats (a function
\* of the categories it has; <<>> when the body has no categoryStats)
Reports ==
    LET right == Answer("q1", <<"a">>, 3) @@ [isCorrect |-> TRUE]
        wrong == Answer("q2", <<"a">>, 2) @@ [isCorrect |-> FALSE]
        of(correct, total) == [correct |-> correct, total |-> total]
        report(answers, score, correct, stats) ==
            [answers |-> answers, finalScore |-> score,
             finalCorrect |-> correct, categoryStats |-> stats]
    IN  {report(<<>>, 0, 0, <<>>),
         report(<<right, wrong>>, 10, 1,
                [c \in Categories |->
                    IF c = "HEALTH" THEN of(1, 1)
                    ELSE IF c = "COGNITION" THEN of(0, 1) ELSE of(0, 0)]),
         report(<<right>>, 30, 1, [c \in {"HEALTH"} |-> of(3, 2)]),
         report(<<wrong, right, wrong>>, 10, 1,
                [c \in {"HEALTH", "COGNITION"} |->
                    IF c = "HEALTH" THEN of(1, 1) ELSE of(1, 3)])}

\* categoryStats?.[c] || { correct: 0, total: 0 }
statsOrZero(stats, c) ==
    IF c \in DOMAIN stats THEN stats[c] ELSE [correct |-> 0, total |-> 0]

newMasteryScores(stats) ==
    [healthMastery |-> calculateMastery(statsOrZero(stats, "HEALTH")),
     cognitionMastery |-> calculateMastery(statsOrZero(stats, "COGNITION")),
     digitalMastery |-> calculateMastery(statsOrZero(stats, "DIGITAL")),
     financeMastery |-> calculateMastery(statsOrZero(stats, "FINANCE"))]

\* POST /start: an anonymous player gets questions and no session
StartReported(userId) ==
    IF isAnonymous(userId)
    THEN /\ req' = [route |-> "/start", userId |-> userId, sessionId |-> 0]
         /\ res' = Response(200, 0, 0, 0, NoMastery)
         /\ UNCHANGED <<gameResult, gameQuestion, profile, hintUsage, toCreateGQ>>
         /\ UNCHANGED validateVars
         /\ UNCHANGED callVars
         /\ UNCHANGED serviceVars
    ELSE Start(userId)

\* POST /complete with the body report and the session id (0: none)
CompleteReported(userId, sessionId, report) ==
    LET saved == ~isAnonymous(userId) /\ sessionId # 0
                     /\ owned(userId, sessionId)
        status == IF isAnonymous(userId) THEN 200
                  ELSE IF sessionId = 0 THEN 400
                  ELSE IF ~owned(userId, sessionId) THEN 404 ELSE 200
        toCreate == [i \in 1..Len(report.answers) |->
                        LET a == report.answers[i]
                        IN  [gameResultId |-> sessionId, questionId |-> a.id,
                             userAnswer |-> a.chosen, isCorrect |-> a.isCorrect,
                             timeSpent |-> a.timeSpent]]
    IN  /\ saved =>
              Cardinality(UNION {{u} \X (1..profile[u].gamesPlayed) :
                                    u \in Users}) < MaxCompletes
        /\ req' = [route |-> "/complete", userId |-> userId,
                   sessionId |-> sessionId,
                   categoryStats |-> report.categoryStats]
        /\ IF saved
           THEN /\ toCreateGQ' = toCreate
                /\ gameQuestion' = gameQuestion \o toCreate
                /\ hintUsage' = hintUsage
                /\ gameResult' =
                      [gameResult EXCEPT ![sessionId] =
                          [@ EXCEPT !.score = report.finalScore,
                                    !.correctAnswers = report.finalCorrect,
                                    !.totalQuestions = Len(report.answers),
                                    !.isCompleted = TRUE]]
                /\ profile' =
                      [profile EXCEPT ![userId] =
                          [totalScore |-> @.totalScore + report.finalScore,
                           gamesPlayed |-> @.gamesPlayed + 1,
                           totalHintsUsed |-> @.totalHintsUsed]
                              @@ newMasteryScores(report.categoryStats)]
                /\ res' = Response(200, sessionId, report.finalScore,
                                   report.finalCorrect,
                                   newMasteryScores(report.categoryStats))
           ELSE /\ toCreateGQ' = <<>>
                /\ res' = Response(status, 0,
                                   IF status = 200 THEN report.finalScore ELSE 0,
                                   IF status = 200 THEN report.finalCorrect
                                   ELSE 0,
                                   NoMastery)
                /\ UNCHANGED tables
        /\ UNCHANGED validateVars
        /\ UNCHANGED callVars
        /\ UNCHANGED serviceVars

ReportedNext ==
    \/ \E userId \in Users \cup Anonymous : StartReported(userId)
    \/ \E userId \in Users \cup Anonymous, sessionId \in 0..MaxSessions,
          report \in Reports :
          CompleteReported(userId, sessionId, report)

ReportedSpec == GameInit /\ [][ReportedNext]_vars

\* ---- anonymous play ----

MaxHints == 2

\* POST /hint/use: an anonymous player's hint is not recorded
HintUse(userId, questionId, hintLevel) ==
    /\ req' = [route |-> "/hint/use", userId |-> userId, sessionId |-> 0]
    /\ IF isAnonymous(userId)
       THEN /\ res' = [status |-> 200, success |-> TRUE,
                       message |-> "Anonymous mode - hint not saved"]
            /\ UNCHANGED tables
       ELSE /\ Len(hintUsage) < MaxHints
            /\ hintUsage' = Append(hintUsage,
                                   [userId |-> userId, questionId |-> questionId,
                                    hintLevel |-> hintLevel])
            /\ profile' = [profile EXCEPT ![userId].totalHintsUsed = @ + 1]
            /\ res' = [status |-> 200, success |-> TRUE]
            /\ UNCHANGED <<gameResult, gameQuestion>>
    /\ UNCHANGED toCreateGQ
    /\ UNCHANGED validateVars
    /\ UNCHANGED callVars
    /\ UNCHANGED serviceVars

\* GET /session/:id of the routes that store what the client reports: an
\* anonymous player has no session
GetSessionReported(userId, id) ==
    /\ req' = [route |-> "/session/:id", userId |-> userId, sessionId |-> id]
    /\ res' =
          IF isAnonymous(userId)
          THEN [status |-> 404, ok |-> FALSE,
                error |-> "Anonymous users don't have saved sessions"]
          ELSE IF ~owned(userId, id) THEN [status |-> 404, ok |-> FALSE]
          ELSE LET gr == gameResult[id]
                   gameQuestions ==
                       SelectSeq(gameQuestion, LAMBDA gq : gq.gameResultId = id)
               IN  [status |-> 200, sessionId |-> id, score |-> gr.score,
                    correctAnswers |-> gr.correctAnswers,
                    totalQuestions |-> gr.totalQuestions,
                    category |-> "MIXED",
                    masteryPercent |-> masteryPercent(gr),
                    questions |->
                        [i \in 1..Len(gameQuestions) |->
                            [id |-> gameQuestions[i].questionId,
                             isCorrect |-> gameQuestions[i].isCorrect,
                             userAnswer |-> gameQuestions[i].userAnswer,
                             category |->
                                 Question[gameQuestions[i].questionId].category]],
                    categoryStats |-> categoryStats(gameQuestions)]
    /\ UNCHANGED <<tables, toCreateGQ>>
    /\ UNCHANGED validateVars
    /\ UNCHANGED callVars
    /\ UNCHANGED serviceVars

\* a player and an anonymous player use hints, start games, complete them
\* with the report of two answers, and read the sessions
AnonymousNext ==
    \/ \E userId \in {"u1"} \cup Anonymous : HintUse(userId, "q1", 1)
    \/ \E userId \in {"u1"} \cup Anonymous : StartReported(userId)
    \/ \E userId \in {"u1"} \cup Anonymous, sessionId \in 0..MaxSessions :
          \E report \in {r \in Reports : Len(r.answers) = 2} :
              CompleteReported(userId, sessionId, report)
    \/ \E userId \in {"u1"} \cup Anonymous, id \in 1..MaxSessions :
          GetSessionReported(userId, id)

AnonymousSpec == GameInit /\ [][AnonymousNext]_vars

\* ---- game routes that keep lifetime masteries ----

\* a faulty variant: the rows of every user
allAnswersOfEveryUser(userId, results, questions) == questions

\* findMany of the GameQuestion rows of the user's completed games
allAnswers(userId, results, questions) ==
    SelectSeq(questions, LAMBDA x : /\ results[x.gameResultId].userId = userId
                                    /\ results[x.gameResultId].isCompleted)

\* POST /complete: the answers are graded, the transaction commits, and the
\* masteries are computed again from every stored answer of the user; the
\* body has no category, so no achievement is written
CompleteLifetime(userId, sessionId, answers) ==
    /\ owned(userId, sessionId)
    /\ Cardinality(UNION {{u} \X (1..profile[u].gamesPlayed) : u \in Users})
          < MaxCompletes
    /\ toCreateGQ' = rows(answers, sessionId)
    /\ gameQuestion' = gameQuestion \o toCreateGQ'
    /\ hintUsage' = hintUsage
    /\ gameResult' =
          [gameResult EXCEPT ![sessionId] =
              [@ EXCEPT !.score = serverScore(toCreateGQ'),
                        !.correctAnswers = totalCorrect(toCreateGQ'),
                        !.totalQuestions = Len(answers),
                        !.isCompleted = TRUE]]
    /\ profile' =
          [profile EXCEPT ![userId] =
              [totalScore |-> @.totalScore + serverScore(toCreateGQ'),
               gamesPlayed |-> @.gamesPlayed + 1,
               totalHintsUsed |-> @.totalHintsUsed]
                  @@ masteryScores(allAnswers(userId, gameResult',
                                              gameQuestion'))]
    /\ req' = [route |-> "/complete", userId |-> userId, sessionId |-> sessionId]
    /\ res' = Response(200, sessionId, serverScore(toCreateGQ'),
                       totalCorrect(toCreateGQ'), NoMastery)
    /\ UNCHANGED validateVars
    /\ UNCHANGED callVars
    /\ UNCHANGED serviceVars

LifetimeNext ==
    \/ \E userId \in Users : Start(userId)
    \/ \E userId \in Users, sessionId \in 1..MaxSessions :
          CompleteNotFound(userId, sessionId)
    \/ \E userId \in Users, sessionId \in 1..MaxSessions,
          answers \in AnswerLists :
          \/ CompleteFailed(userId, sessionId, answers)
          \/ CompleteLifetime(userId, sessionId, answers)

LifetimeSpec == GameInit /\ [][LifetimeNext]_vars

\* ---- the lifetime /complete, its database steps interleaved ----

MaxRequests == 2

\* the /complete requests received so far are in call, each with the step it
\* has reached and the masteries it computed from the rows it read
ConcurrentInit ==
    /\ NoCall
    /\ NoGame
    /\ call = <<>>
    /\ ret = <<>>

\* a /complete up to the commit of its transaction: the session is found,
\* the answers are graded, the rows, the GameResult and the profile's score
\* and games are written
CommitComplete(userId, sessionId, answers) ==
    /\ Len(call) < MaxRequests
    /\ owned(userId, sessionId)
    /\ \A i \in 1..Len(graded(answers)) :
          isBoolean(graded(answers)[i], Question[graded(answers)[i].id])
    /\ toCreateGQ' = rows(answers, sessionId)
    /\ gameQuestion' = gameQuestion \o toCreateGQ'
    /\ hintUsage' = hintUsage
    /\ gameResult' =
          [gameResult EXCEPT ![sessionId] =
              [@ EXCEPT !.score = serverScore(toCreateGQ'),
                        !.correctAnswers = totalCorrect(toCreateGQ'),
                        !.totalQuestions = Len(answers),
                        !.isCompleted = TRUE]]
    /\ profile' =
          [profile EXCEPT ![userId].totalScore = @ + serverScore(toCreateGQ'),
                          ![userId].gamesPlayed = @ + 1]
    /\ call' = Append(call, [userId |-> userId, sessionId |-> sessionId,
                             step |-> "committed", mastery |-> NoMastery])
    /\ UNCHANGED <<req, res, ret>>
    /\ UNCHANGED validateVars
    /\ UNCHANGED serviceVars

\* the request i reads every stored answer of its user and computes pct
ReadAllAnswers(i) ==
    /\ i <= Len(call)
    /\ call[i].step = "committed"
    /\ call' = [call EXCEPT ![i].step = "read",
                            ![i].mastery =
                                masteryScores(allAnswers(call[i].userId,
                                                         gameResult,
                                                         gameQuestion))]
    /\ UNCHANGED <<gameVars, ret, validateVars>>
    /\ UNCHANGED serviceVars

\* the request i writes the masteries it computed and answers
UpdateMasteries(i) ==
    /\ i <= Len(call)
    /\ call[i].step = "read"
    /\ profile' =
          [profile EXCEPT ![call[i].userId] =
              [totalScore |-> @.totalScore, gamesPlayed |-> @.gamesPlayed,
               totalHintsUsed |-> @.totalHintsUsed]
                  @@ call[i].mastery]
    /\ call' = [call EXCEPT ![i].step = "done"]
    /\ req' = [route |-> "/complete", userId |-> call[i].userId,
               sessionId |-> call[i].sessionId]
    /\ res' = Response(200, call[i].sessionId,
                       gameResult[call[i].sessionId].score,
                       gameResult[call[i].sessionId].correctAnswers, NoMastery)
    /\ UNCHANGED <<gameResult, gameQuestion, hintUsage, toCreateGQ, ret,
                   validateVars>>
    /\ UNCHANGED serviceVars

ConcurrentNext ==
    \/ \E userId \in Users : Start(userId)
    \/ \E userId \in Users, sessionId \in 1..MaxSessions,
          answers \in AnswerLists : CommitComplete(userId, sessionId, answers)
    \/ \E i \in 1..MaxRequests : ReadAllAnswers(i)
    \/ \E i \in 1..MaxRequests : UpdateMasteries(i)

ConcurrentSpec == ConcurrentInit /\ [][ConcurrentNext]_vars

----------------------------------------------------------------------------
(* The refresh tokens: POST /signin, POST /refresh, POST /logout *)

\* expiresIn: "7d" of the refresh token, in seconds
RefreshTokenLife == 604800

\* the expiresAt of the session row /signin creates: 365 days, in seconds
SigninSessionLife == 31536000

\* the expiresAt /refresh gives the session row: 90 days, in seconds
RefreshSessionLife == 7776000

\* no cookie, and a cookie that is no token signed with the refresh secret
NoCookie == [uid |-> "none", iat |-> 0]

BadCookie == [uid |-> "bad", iat |-> 0]

\* the refreshToken of generateTokens: jwt.sign of the payload of the user
\* with the refresh secret.  The token is the signed text of the payload,
\* the second it is issued at (iat) and its expiry (iat + 7d): two tokens of
\* one user issued within one second are the same text.
generateTokens(uid) == [uid |-> uid, iat |-> now]

\* whether verifyRefreshToken returns: the signature and the expiry
verifyRefreshToken(token) ==
    /\ token.uid \in Users
    /\ now < token.iat + RefreshTokenLife

MaxAuthCalls == 4

MaxTime == 2

\* the requests made so far are in call and their responses in ret
AuthInit ==
    /\ NoCall
    /\ NoGame
    /\ call = <<>>
    /\ ret = <<>>

\* the response: its status and the refresh_token cookie it sets
AuthResponse(status, cookie) == [status |-> status, refresh_token |-> cookie]

\* the cookies a request can hold: none, one that is no token, or a refresh
\* token a response has set before
Cookies == {NoCookie, BadCookie} \cup [uid : Users, iat : 0..MaxTime]

\* the refresh tokens the responses have set
Issued ==
    {ret[i].refresh_token : i \in {k \in 1..Len(ret) : ret[k].status = 200}}
        \ {NoCookie}

\* POST /signin: the user's sessions are deleted (none has a token that
\* starts with "qr_") and one with the new refresh token is created
Signin(username, passwordValid) ==
    /\ Len(call) < MaxAuthCalls
    /\ call' = Append(call, [route |-> "/signin", username |-> username,
                             cookie |-> NoCookie])
    /\ IF username \in Users /\ passwordValid
       THEN /\ authSession' =
                  Append(SelectSeq(authSession,
                                   LAMBDA s : s.userId # username),
                         [userId |-> username,
                          token |-> generateTokens(username),
                          expiresAt |-> now + SigninSessionLife])
            /\ ret' = Append(ret, AuthResponse(200, generateTokens(username)))
       ELSE /\ ret' = Append(ret, AuthResponse(401, NoCookie))
            /\ UNCHANGED authSession
    /\ UNCHANGED <<store, now>>
    /\ UNCHANGED validateVars
    /\ UNCHANGED gameVars

\* POST /refresh with the refresh_token cookie
Refresh(cookie) ==
    /\ Len(call) < MaxAuthCalls
    /\ cookie \in Issued \cup {NoCookie, BadCookie}
    /\ call' = Append(call, [route |-> "/refresh", username |-> "none",
                             cookie |-> cookie])
    /\ LET found == {i \in 1..Len(authSession) :
                        /\ authSession[i].token = cookie
                        /\ authSession[i].expiresAt > now}
           first == CHOOSE i \in found : \A k \in found : i <= k
       IN  IF cookie = NoCookie \/ ~verifyRefreshToken(cookie) \/ found = {}
           THEN /\ ret' = Append(ret, AuthResponse(401, NoCookie))
                /\ UNCHANGED authSession
           ELSE /\ authSession' =
                      [authSession EXCEPT ![first] =
                          [@ EXCEPT !.token =
                                        generateTokens(authSession[first].userId),
                                    !.expiresAt = now + RefreshSessionLife]]
                /\ ret' = Append(ret,
                                 AuthResponse(200,
                                     generateTokens(authSession[first].userId)))
    /\ UNCHANGED <<store, now>>
    /\ UNCHANGED validateVars
    /\ UNCHANGED gameVars

\* POST /logout with the refresh_token cookie, or without one
Logout(cookie) ==
    /\ Len(call) < MaxAuthCalls
    /\ cookie \in Issued \cup {NoCookie, BadCookie}
    /\ call' = Append(call, [route |-> "/logout", username |-> "none",
                             cookie |-> cookie])
    /\ authSession' =
          IF cookie = NoCookie THEN authSession
          ELSE SelectSeq(authSession, LAMBDA s : s.token # cookie)
    /\ ret' = Append(ret, AuthResponse(200, NoCookie))
    /\ UNCHANGED <<store, now>>
    /\ UNCHANGED validateVars
    /\ UNCHANGED gameVars

\* a second passes
Tick ==
    /\ now < MaxTime
    /\ now' = now + 1
    /\ UNCHANGED <<authSession, store>>
    /\ UNCHANGED validateVars
    /\ UNCHANGED gameVars
    /\ UNCHANGED callVars

AuthNext ==
    \/ \E username \in Users \cup {"nobody"}, passwordValid \in BOOLEAN :
          Signin(username, passwordValid)
    \/ \E cookie \in Cookies : Refresh(cookie)
    \/ \E cookie \in Cookies : Logout(cookie)
    \/ Tick

AuthSpec == AuthInit /\ [][AuthNext]_vars

----------------------------------------------------------------------------
(* gameLimiter *)

\* RATE_LIMIT.GAME
windowMs == 60000

max == 30

\* (req as any).user?.id || req.ip || req.ips[0] || "anon"; a field the
\* request does not have is ""
keyOf(request) ==
    IF request.user # "" THEN request.user
    ELSE IF request.ip # "" THEN request.ip
    ELSE IF request.ips # <<>> /\ request.ips[1] # "" THEN request.ips[1]
    ELSE "anon"

\* a faulty variant: a request is refused only above max
gameLimiterAboveMax(hits, key, at) ==
    IF key \notin DOMAIN hits \/ at > hits[key].resetAt
    THEN [hits |-> [k \in DOMAIN hits \cup {key} |->
                       IF k = key THEN [count |-> 1, resetAt |-> at + windowMs]
                       ELSE hits[k]],
          next |-> TRUE, status |-> 0, retryAfter |-> 0]
    ELSE IF hits[key].count > max
    THEN [hits |-> hits, next |-> FALSE, status |-> 429,
          retryAfter |-> (hits[key].resetAt - at + 999) \div 1000]
    ELSE [hits |-> [hits EXCEPT ![key].count = @ + 1],
          next |-> TRUE, status |-> 0, retryAfter |-> 0]

\* the middleware on a request of the key at the time at: the Map after it,
\* whether it called next, and the status and Retry-After it answered with
gameLimiter(hits, key, at) ==
    IF key \notin DOMAIN hits \/ at > hits[key].resetAt
    THEN [hits |-> [k \in DOMAIN hits \cup {key} |->
                       IF k = key THEN [count |-> 1, resetAt |-> at + windowMs]
                       ELSE hits[k]],
          next |-> TRUE, status |-> 0, retryAfter |-> 0]
    ELSE IF hits[key].count >= max
    THEN [hits |-> hits, next |-> FALSE, status |-> 429,
          retryAfter |-> (hits[key].resetAt - at + 999) \div 1000]
    ELSE [hits |-> [hits EXCEPT ![key].count = @ + 1],
          next |-> TRUE, status |-> 0, retryAfter |-> 0]

MaxWindows == 2

\* the requests: of a signed-in user, and of nobody from an address
LimitedRequests ==
    {[user |-> "u1", ip |-> "10.0.0.1", ips |-> <<>>],
     [user |-> "", ip |-> "10.0.0.1", ips |-> <<>>]}

\* no request yet; call counts, for each key, the requests passed to next
\* since the key's window was opened
LimiterInit ==
    /\ NoCall
    /\ NoGame
    /\ call = [k \in {keyOf(r) : r \in LimitedRequests} |-> 0]
    /\ ret = <<>>

\* a request reaches the middleware
LimitRequest(request) ==
    LET key == keyOf(request)
        out == gameLimiter(store, key, now)
    IN  /\ store' = out.hits
        /\ req' = [route |-> "gameLimiter", userId |-> request.user,
                   sessionId |-> 0, key |-> key]
        /\ res' = [status |-> out.status, next |-> out.next,
                   retryAfter |-> out.retryAfter]
        /\ call' = [call EXCEPT ![key] =
                       IF ~out.next THEN @
                       ELSE IF key \notin DOMAIN store
                               \/ store'[key].resetAt # store[key].resetAt
                       THEN 1 ELSE @ + 1]
        /\ UNCHANGED <<authSession, now, ret, toCreateGQ>>
        /\ UNCHANGED tables
        /\ UNCHANGED validateVars

\* half a window passes
HalfWindow ==
    /\ now < MaxWindows * windowMs
    /\ now' = now + windowMs \div 2
    /\ UNCHANGED <<authSession, store>>
    /\ UNCHANGED validateVars
    /\ UNCHANGED gameVars
    /\ UNCHANGED callVars

LimiterNext ==
    \/ \E request \in LimitedRequests : LimitRequest(request)
    \/ HalfWindow

LimiterSpec == LimiterInit /\ [][LimiterNext]_vars

---------------------------------------------------------------------------
(* The calls of the scoring functions the model makes *)

MaxDifficulty == 6

Difficulties == (0 - MaxDifficulty)..MaxDifficulty

MaxTotal == 40

\* the counters of a category: correct <= total
CategoryCounters ==
    {<<correct, total>> \in (0..MaxTotal) \X (0..MaxTotal) : correct <= total}

ScoringCalls ==
    {[fn |-> f, args |-> <<d>>] :
        f \in {"baseScore", "calculateBaseScore"}, d \in Difficulties}
        \cup {[fn |-> "calculateMastery", args |-> x] : x \in CategoryCounters}

ScoringInit ==
    /\ NoCall
    /\ NoGame
    /\ call \in ScoringCalls
    /\ ret = <<>>

\* the base score of the game routes
ApplyBaseScore ==
    /\ call.fn = "baseScore"
    /\ ret = <<>>
    /\ ret' = <<baseScore(call.args[1])>>
    /\ UNCHANGED <<call, validateVars, gameVars>>
    /\ UNCHANGED serviceVars

\* calculateBaseScore of the game service
ApplyCalculateBaseScore ==
    /\ call.fn = "calculateBaseScore"
    /\ ret = <<>>
    /\ ret' = <<calculateBaseScore(call.args[1])>>
    /\ UNCHANGED <<call, validateVars, gameVars>>
    /\ UNCHANGED serviceVars

\* calculateMastery of the game routes
ApplyCalculateMastery ==
    /\ call.fn = "calculateMastery"
    /\ ret = <<>>
    /\ ret' = <<calculateMastery([correct |-> call.args[1],
                                  total |-> call.args[2]])>>
    /\ UNCHANGED <<call, validateVars, gameVars>>
    /\ UNCHANGED serviceVars

ScoringNext ==
    \/ ApplyBaseScore
    \/ ApplyCalculateBaseScore
    \/ ApplyCalculateMastery

ScoringSpec == ScoringInit /\ [][ScoringNext]_vars

----------------------------------------------------------------------------
(* The calls of batchValidate *)

\* a faulty variant: after the first incorrect item every item is incorrect
batchValidateUntilWrong(answers) ==
    LET results == [i \in 1..Len(answers) |->
                       validate(answers[i].userAnswer, answers[i].correctAnswers,
                                answers[i].inputType, answers[i].targetValue)]
    IN  IF \E i \in 1..Len(answers) : results[i].threw THEN Throw
        ELSE Return([i \in 1..Len(answers) |->
                        \A j \in 1..i : results[j].value])

\* answers.map(answer => this.validate(...)): a throw of validate rejects the
\* promise
batchValidate(answers) ==
    LET results == [i \in 1..Len(answers) |->
                       validate(answers[i].userAnswer, answers[i].correctAnswers,
                                answers[i].inputType, answers[i].targetValue)]
    IN  IF \E i \in 1..Len(answers) : results[i].threw THEN Throw
        ELSE Return([i \in 1..Len(answers) |-> results[i].value])

MaxBatch == 3

\* the items of the batches
BatchItems ==
    LET item(userAnswer_, correctAnswers_, inputType_, targetValue_) ==
            [userAnswer |-> userAnswer_, correctAnswers |-> correctAnswers_,
             inputType |-> inputType_, targetValue |-> targetValue_]
    IN  {item(Str_Answer, <<Str_answer>>, "TEXT", <<>>),
         item(Str_vitamin_d, <<Str_vitamin_c, Str_vitamin_C>>, "TEXT", <<>>),
         item(Str_answer, <<Str_vitamin_c, Str_answer>>, "MULTIPLE_CHOICE_4",
              <<>>),
         item(Str_5plus5, <<>>, "CALCULATION", Target(10)),
         item(Str_5plus5_002, <<>>, "CALCULATION", Target(10)),
         item(Str_5plus5, <<>>, "CALCULATION", <<>>),
         item(Str_answer, <<Str_answer>>, UnknownType, <<>>)}

BatchInit ==
    /\ NoCall
    /\ NoGame
    /\ call \in {[fn |-> "batchValidate", args |-> <<answers>>] :
                    answers \in SeqsUpTo(BatchItems, MaxBatch)}
    /\ ret = <<>>

\* one call of batchValidate
BatchValidate ==
    /\ call.fn = "batchValidate"
    /\ ret = <<>>
    /\ ret' = <<batchValidate(call.args[1])>>
    /\ UNCHANGED <<call, validateVars, gameVars>>
    /\ UNCHANGED serviceVars

BatchSpec == BatchInit /\ [][BatchValidate]_vars

----------------------------------------------------------------------------
(* Calls of validate one after another on one AnswerValidator *)

MaxCalls == 3

GradingInit ==
    /\ NoCall
    /\ NoGame
    /\ call = [fn |-> "validate", args |-> <<>>]
    /\ ret = <<>>

\* one more call of validate, of the item; the items and the results of the
\* calls so far are call.args and ret
Grade(item) ==
    /\ Len(ret) < MaxCalls
    /\ pc' = "done"
    /\ userAnswer' = item.userAnswer
    /\ correctAnswers' = item.correctAnswers
    /\ inputType' = item.inputType
    /\ targetValue' = item.targetValue
    /\ result' = validate(item.userAnswer, item.correctAnswers, item.inputType,
                          item.targetValue)
    /\ call' = [call EXCEPT !.args = Append(@, item)]
    /\ ret' = Append(ret, result')
    /\ UNCHANGED gameVars
    /\ UNCHANGED serviceVars

GradingSpec == GradingInit /\ [][\E item \in BatchItems : Grade(item)]_vars

----------------------------------------------------------------------------
(* GET /api/leaderboard *)

\* parseInt of a decimal string: NaN without a leading digit run
parseInt(string) ==
    LET s == TrimStart(string)
        negative == s # <<>> /\ Head(s) = "-"
        unsigned == IF s # <<>> /\ Head(s) \in {"+", "-"} THEN Tail(s) ELSE s
        end == DigitRunEnd(unsigned, 1)
        value == DigitsValue(SubSeq(unsigned, 1, end - 1))
    IN  IF end = 1 THEN NaN
        ELSE MkNum(IF negative THEN 0 - value ELSE value, 1, negative)

\* a faulty variant: the end is ignored
sliceAll(array, end) == array

\* array.slice(0, end)
slice(array, end) ==
    LET relativeEnd == IF end.k = "nan" THEN 0 ELSE end.n
        final == IF relativeEnd < 0
                 THEN (IF Len(array) + relativeEnd < 0 THEN 0
                       ELSE Len(array) + relativeEnd)
                 ELSE Min(relativeEnd, Len(array))
    IN  SubSeq(array, 1, final)

\* the entries of the Map byUser after the loop, in insertion order
RECURSIVE byUser(_)
byUser(results) ==
    IF results = <<>> THEN <<>>
    ELSE LET r == results[Len(results)]
             before == byUser(SubSeq(results, 1, Len(results) - 1))
             e == IF \E i \in 1..Len(before) : before[i].userId = r.userId
                  THEN CHOOSE i \in 1..Len(before) :
                           before[i].userId = r.userId
                  ELSE 0
             add(data) == [userId |-> r.userId,
                           score |-> data.score + r.score,
                           games |-> data.games + 1,
                           totalCorrect |-> data.totalCorrect + r.correctAnswers,
                           totalQuestions |->
                               data.totalQuestions + r.totalQuestions]
         IN  IF e = 0
             THEN Append(before, add([score |-> 0, games |-> 0,
                                      totalCorrect |-> 0, totalQuestions |-> 0]))
             ELSE [before EXCEPT ![e] = add(@)]

accuracy(data) ==
    IF data.totalQuestions > 0
    THEN IF data.totalCorrect = 0 THEN 0
         ELSE MathRound(Times100(DivideDoubles(data.totalCorrect,
                                               data.totalQuestions)))
    ELSE 0

\* a faulty variant: an entry goes before the entries of its own score
RECURSIVE sortUnstable(_)
sortUnstable(array) ==
    IF array = <<>> THEN <<>>
    ELSE LET x == array[Len(array)]
             sorted == sortUnstable(SubSeq(array, 1, Len(array) - 1))
             k == Cardinality({i \in 1..Len(sorted) : sorted[i].score > x.score})
         IN  SubSeq(sorted, 1, k) \o <<x>> \o SubSeq(sorted, k + 1, Len(sorted))

\* array.sort((a, b) => b.score - a.score); the sort is stable
RECURSIVE sort(_)
sort(array) ==
    IF array = <<>> THEN <<>>
    ELSE LET x == array[Len(array)]
             sorted == sort(SubSeq(array, 1, Len(array) - 1))
             k == Cardinality({i \in 1..Len(sorted) : sorted[i].score >= x.score})
         IN  SubSeq(sorted, 1, k) \o <<x>> \o SubSeq(sorted, k + 1, Len(sorted))

\* the query parameter, or its default when the request has none
param(query, name, default) ==
    IF name \in DOMAIN query THEN query[name] ELSE default

\* a faulty variant: the games that are not completed are selected too
findManyOfAnyState(table, query) ==
    LET period == param(query, "period", "weekly")
        category == param(query, "category", "ALL")
        days == CASE period = "daily" -> 1
                  [] period = "weekly" -> 7
                  [] period = "monthly" -> 30
                  [] OTHER -> 0
    IN  SelectSeq(table, LAMBDA r :
            /\ period \in {"daily", "weekly", "monthly"} => r.age <= days
            /\ category # "ALL" => r.category = category)

\* findMany of the completed games of the period and the category; the age
\* of a game is the number of days since it was completed
findMany(table, query) ==
    LET period == param(query, "period", "weekly")
        category == param(query, "category", "ALL")
        days == CASE period = "daily" -> 1
                  [] period = "weekly" -> 7
                  [] period = "monthly" -> 30
                  [] OTHER -> 0
    IN  SelectSeq(table, LAMBDA r :
            /\ r.isCompleted
            /\ period \in {"daily", "weekly", "monthly"} => r.age <= days
            /\ category # "ALL" => r.category = category)

\* the rows of the response
leaderboard(table, query) ==
    LET entries == byUser(findMany(table, query))
        mapped == [i \in 1..Len(entries) |->
                      [userId |-> entries[i].userId,
                       score |-> entries[i].score,
                       gamesPlayed |-> entries[i].games,
                       accuracy |-> accuracy(entries[i])]]
        top == slice(sort(mapped), parseInt(param(query, "limit", <<"1", "0">>)))
    IN  [i \in 1..Len(top) |-> [rank |-> i] @@ top[i]]

MaxResults == 3

\* the GameResult tables the leaderboard is asked over: every table of at
\* most MaxResults of eight games, and one of the games of fifteen users
GameResultTables ==
    LET game(userId, score, correct, total, category, age, isCompleted) ==
            [userId |-> userId, score |-> score, correctAnswers |-> correct,
             totalQuestions |-> total, category |-> category, age |-> age,
             isCompleted |-> isCompleted]
        games == {game(1, 30, 3, 4, "HEALTH", 0, TRUE),
                  game(2, 30, 1, 2, "HEALTH", 0, TRUE),
                  game(3, 50, 5, 5, "HEALTH", 3, TRUE),
                  game(1, 20, 2, 6, "HEALTH", 0, TRUE),
                  game(2, 230, 23, 40, "HEALTH", 0, TRUE),
                  game(3, 90, 9, 9, "HEALTH", 0, FALSE),
                  game(2, 70, 7, 9, "COGNITION", 10, TRUE),
                  game(1, 0, 0, 0, "HEALTH", 0, TRUE)}
        fifteen == [i \in 1..15 |->
                       game(i, 10 * ((7 * i) % 6), (7 * i) % 6, 5, "HEALTH", 0,
                            TRUE)]
    IN  SeqsUpTo(games, MaxResults) \cup {fifteen}

\* the query strings: each parameter is there or not
Queries ==
    LET limits == {<<"1">>, <<"2">>, <<"1", "0">>, <<"0">>, <<"-", "1">>,
                   <<"a", "l", "l">>}
        some(name, values) ==
            {<<>>} \cup {[n \in {name} |-> v] : v \in values}
    IN  {l @@ c @@ p : l \in some("limit", limits),
                       c \in some("category", {"HEALTH", "ALL"}),
                       p \in some("period", {"daily", "all"})}

LeaderboardInit ==
    /\ NoCall
    /\ NoGame
    /\ call \in {[fn |-> "GET /api/leaderboard", args |-> <<table, query>>] :
                    table \in GameResultTables, query \in Queries}
    /\ ret = <<>>

\* GET /api/leaderboard answers the rows
GetLeaderboard ==
    /\ call.fn = "GET /api/leaderboard"
    /\ ret = <<>>
    /\ ret' = <<[status |-> 200,
                 body |-> leaderboard(call.args[1], call.args[2])]>>
    /\ UNCHANGED <<call, validateVars, gameVars>>
    /\ UNCHANGED serviceVars

LeaderboardSpec == LeaderboardInit /\ [][GetLeaderboard]_vars

---------------------------------------------------------------------------
(* Properties of AnswerValidator.validate *)

Called(type) == pc = "done" /\ inputType = type

VitaminAnswers == <<Str_vitamin_c, Str_vitamin_C, Str_thai>>

InsertAt(s, i, c) == SubSeq(s, 1, i) \o <<c>> \o SubSeq(s, i + 1, Len(s))

RemoveAt(s, i) == SubSeq(s, 1, i - 1) \o SubSeq(s, i + 1, Len(s))

\* s with one character's case changed, with white space added at an end,
\* with a character of an interior run of white space removed, or with one
\* punctuation character inserted or removed
Variants(s) ==
    {[s EXCEPT ![i] = toLowerCase(s[i])] : i \in 1..Len(s)}
        \cup {[s EXCEPT ![p[1]] = UpperCase[p[2]]] :
                 p \in {q \in (1..Len(s)) \X (1..Len(LowerCase)) :
                           LowerCase[q[2]] = s[q[1]]}}
        \cup {<<" ">> \o s, s \o <<" ">>}
        \cup {RemoveAt(s, i) :
                 i \in {k \in 2..Len(s) - 1 :
                           s[k] \in WhiteSpace /\ s[k - 1] \in WhiteSpace
                              /\ s[k + 1] \notin WhiteSpace}}
        \cup {InsertAt(s, i, c) : i \in 0..Len(s), c \in {"!", "'"}}
        \cup {RemoveAt(s, i) : i \in {k \in 1..Len(s) : s[k] \in Punctuation}}

\* C2: the grade of a TEXT submission does not change when the case of a
\* letter changes, white space is added at an end, an interior run of white
\* space shrinks, or a punctuation character is inserted or removed anywhere.
C2_TextGradeInvariantUnderEdits ==
    Called("TEXT") =>
        \A v \in Variants(userAnswer) :
            validate(v, correctAnswers, inputType, targetValue).value = result.value

\* C3: a MULTIPLE_CHOICE submission is graded correct exactly when it equals,
\* character for character, the first expected answer.
C3_MultipleChoiceEqualsFirst ==
    pc = "done" /\ inputType \in {"MULTIPLE_CHOICE_3", "MULTIPLE_CHOICE_4"} =>
        (result.value <=> (correctAnswers # <<>> /\ userAnswer = correctAnswers[1]))

\* the value of the submitted expression, as the grader evaluates it
ExpressionValue == RunFunction(sanitize(userAnswer))

\* 1000 * |v - target|, scaled by the denominators, against 1
Distance1000(v, t) == 1000 * Abs(v.n * t.d - t.n * v.d)

\* AnswerValidator.validate grades a CALCULATION submission whose value is
\* less than 0.001 from the target correct and one more than 0.001 away
\* incorrect; with target 10, "5+5" and "5+5.0009" are correct and "5+5.002"
\* is not.
ValidateCalculationTolerance ==
    Called("CALCULATION") /\ targetValue # <<>> =>
        /\ ExpressionValue.k = "num" =>
             /\ Distance1000(ExpressionValue, targetValue[1])
                    < ExpressionValue.d * targetValue[1].d => result.value
             /\ Distance1000(ExpressionValue, targetValue[1])
                    > ExpressionValue.d * targetValue[1].d => ~result.value
        /\ targetValue = Target(10) =>
             /\ userAnswer \in {Str_5plus5, Str_5plus5_0009} => result.value
             /\ userAnswer = Str_5plus5_002 => ~result.value

ValidateCalculationToleranceWitness ==
    /\ Called("CALCULATION")
    /\ targetValue = Target(10)
    /\ userAnswer = Str_5plus5_0009
    /\ result.value

\* the grade of the text e taken as the expression, with no character removed
GradeOfExpression(e, t) ==
    /\ e # <<>>
    /\ RunFunction(e).k = "num"
    /\ Distance1000(RunFunction(e), t) < RunFunction(e).d * t.d

BasicChars == Digits \cup {"+", "-", "*", "/", "(", ")"} \cup WhiteSpace

C6_CalculationNeverThrows ==
    Called("CALCULATION") /\ targetValue # <<>> =>
        /\ ~result.threw
        /\ (sanitize(userAnswer) = <<>> \/ ExpressionValue.k # "num") => ~result.value

\* a division by zero has been graded
C6_Witness ==
    /\ Called("CALCULATION")
    /\ targetValue # <<>>
    /\ ExpressionValue.k = "inf"
    /\ result = Return(FALSE)

\* C7, as claimed: grading a CALCULATION question with no target raises.
C7_MissingTargetThrows ==
    Called("CALCULATION") /\ targetValue = <<>> => result.threw

\* C7, amended: grading a CALCULATION question with no target returns
\* incorrect for every submission and raises nothing.
C7_MissingTargetIsIncorrect ==
    Called("CALCULATION") /\ targetValue = <<>> => result = Return(FALSE)

C7_Witness ==
    Called("CALCULATION") /\ targetValue = <<>> /\ userAnswer = <<"0">>

\* C8, as claimed: grading a TEXT or MULTIPLE_CHOICE question against an
\* empty expected-answer list raises.
C8_EmptyExpectedThrows ==
    pc = "done" /\ inputType \in InputTypes \ {"CALCULATION"}
        /\ correctAnswers = <<>> => result.threw

\* C8, amended: grading a TEXT or MULTIPLE_CHOICE question against an empty
\* expected-answer list returns incorrect for every submission and raises
\* nothing.
C8_EmptyExpectedIsIncorrect ==
    pc = "done" /\ inputType \in InputTypes \ {"CALCULATION"}
        /\ correctAnswers = <<>> => result = Return(FALSE)

C8_Witness ==
    pc = "done" /\ inputType = "TEXT" /\ correctAnswers = <<>> /\ userAnswer = <<"a">>

\* C9: for an inputType outside the four known ones validate returns
\* incorrect, whatever the submission, the expected answers and the target,
\* and raises nothing.
C9_UnknownTypeIsIncorrect ==
    pc = "done" /\ inputType \notin InputTypes => result = Return(FALSE)

\* an unknown type graded on a submission that a known type grades correct
C9_Witness ==
    /\ pc = "done"
    /\ inputType \notin InputTypes
    /\ \/ validateTextAnswer(userAnswer, correctAnswers).value
       \/ validateCalculation(userAnswer, targetValue).value

---------------------------------------------------------------------------
(* Properties of the game routes *)

Completed == req.route = "/complete" /\ res.status = 200

\* C4: a CALCULATION answer whose expression value is less than 0.001 from
\* the question's target is graded correct and one more than 0.001 away is
\* graded incorrect; against the target 10, "5+5" and "5+5.0009" are correct.
C4_CalculationTolerance ==
    Completed =>
        \A i \in 1..Len(toCreateGQ) :
            LET r == toCreateGQ[i]
                q == Question[r.questionId]
                v == RunFunction(sanitize(r.userAnswer))
            IN  q.inputType = "CALCULATION" /\ q.targetValue # <<>>
                    /\ v.k = "num" =>
                    /\ Distance1000(v, q.targetValue[1]) < v.d * q.targetValue[1].d
                          => r.isCorrect
                    /\ Distance1000(v, q.targetValue[1]) > v.d * q.targetValue[1].d
                          => ~r.isCorrect

\* the points of the rows of one /complete: the base score of the question's
\* difficulty for a row graded correct, nothing for any other row
SumOfBase(created) ==
    SumSeq([i \in 1..Len(created) |->
               IF created[i].isCorrect
               THEN baseScore(Question[created[i].questionId].difficulty)
               ELSE 0])

\* C10: after a server-graded /complete the score stored in the session's
\* GameResult, and the serverScore of the response, is the sum over the
\* answers graded in the request of base(difficulty) for an answer graded
\* correct and of 0 for an answer graded incorrect.
C10_ScoreIsSumOfBase ==
    Completed =>
        /\ gameResult[req.sessionId].score = SumOfBase(toCreateGQ)
        /\ res.serverScore = SumOfBase(toCreateGQ)

\* a /complete that graded one answer correct and another incorrect
C10_Witness ==
    /\ Completed
    /\ \E i, j \in 1..Len(toCreateGQ) :
          toCreateGQ[i].isCorrect /\ ~toCreateGQ[j].isCorrect
    /\ gameResult[req.sessionId].score > 0

---------------------------------------------------------------------------
(* Properties of the scoring functions *)

Returned(fn) == call.fn = fn /\ ret # <<>>

\* C11: the base score of a difficulty d is 30 when d >= 3, 20 when d = 2 and
\* 10 for every other integer d (d <= 1 included); it never decreases as d
\* grows and is one of 10, 20, 30.
C11_BaseScoreIsThreeSteps ==
    Returned("baseScore") \/ Returned("calculateBaseScore") =>
        LET d == call.args[1]
        IN  /\ d >= 3 => ret[1] = 30
            /\ d = 2 => ret[1] = 20
            /\ d <= 1 => ret[1] = 10
            /\ ret[1] \in {10, 20, 30}
            /\ \A e \in Difficulties :
                  e <= d => baseScore(e) <= ret[1] /\ calculateBaseScore(e) <= ret[1]

\* the base score of the difficulty 3, where the highest step starts
C11_Witness == Returned("baseScore") /\ call.args[1] = 3 /\ ret[1] = 30

\* C12: the mastery percentage of the counters correct <= total is 0 when
\* total = 0 and otherwise the integer nearest to 100 * correct / total, an
\* exact half rounded up; it is an integer from 0 to 100.
C12_MasteryIsNearestPercent ==
    Returned("calculateMastery") =>
        LET correct == call.args[1]
            total == call.args[2]
        IN  /\ ret[1] \in 0..100
            /\ total = 0 => ret[1] = 0
            /\ total > 0 => ret[1] = (200 * correct + total) \div (2 * total)


\* ---- properties of the category counters ----

\* the profile fields of the categories
masteryField ==
    [HEALTH |-> "healthMastery", COGNITION |-> "cognitionMastery",
     DIGITAL |-> "digitalMastery", FINANCE |-> "financeMastery"]

\* C13: the counters a mastery percentage is computed from have
\* correct <= total in each of the four categories, whatever the request
\* body, and every mastery stored in a profile is in 0..100.  Stated for the
\* counters the handler reads from the body of a /complete that saves.
C13_CountersWithinTotal ==
    /\ req.route = "/complete" /\ res.status = 200 /\ ~isAnonymous(req.userId)
          => \A c \in Categories :
                statsOrZero(req.categoryStats, c).correct
                    <= statsOrZero(req.categoryStats, c).total
    /\ \A u \in Users, c \in Categories : profile[u][masteryField[c]] \in 0..100

\* the counters of the loop that grades the answers: after each of its
\* iterations correct <= total, and the stored masteries are in 0..100
GradedCountersWithinTotal ==
    /\ \A n \in 0..Len(toCreateGQ), c \in Categories :
          categoryStats(SubSeq(toCreateGQ, 1, n))[c].correct
              <= categoryStats(SubSeq(toCreateGQ, 1, n))[c].total
    /\ \A u \in Users, c \in Categories : profile[u][masteryField[c]] \in 0..100


\* the rows stored before the last /complete added its own
Previous == SubSeq(gameQuestion, 1, Len(gameQuestion) - Len(toCreateGQ))

\* the rows of the games of the user
RowsOf(userId, questions) ==
    SelectSeq(questions, LAMBDA x : gameResult[x.gameResultId].userId = userId)

\* C14: after a /complete of the lifetime variant the mastery stored for each
\* category is the percentage of (prevCorrect + N) in (prevTotal + N + M),
\* prevCorrect of prevTotal being the user's answers of the category recorded
\* before and N correct, M incorrect those of the session just completed.
C14_LifetimeFoldsSession ==
    Completed =>
        \A c \in Categories :
            LET prev == categoryStats(RowsOf(req.userId, Previous))[c]
                session == categoryStats(toCreateGQ)[c]
            IN  profile[req.userId][masteryField[c]] =
                    calculateMastery(
                        [correct |-> prev.correct + session.correct,
                         total |-> prev.total + session.correct
                                       + (session.total - session.correct)])

\* a second /complete of a user whose first recorded answers of a category,
\* while the other user has recorded answers too; the stored mastery is
\* neither that of the session alone nor that of all users' rows
C14_Witness ==
    /\ Completed
    /\ \E c \in Categories :
          /\ categoryStats(RowsOf(req.userId, Previous))[c].total > 0
          /\ categoryStats(toCreateGQ)[c].total > 0
          /\ profile[req.userId][masteryField[c]]
                # calculateMastery(categoryStats(toCreateGQ)[c])


\* the number of the session's answers of the category c, or of its correct
\* ones
SessionAnswers(c, correctOnly) ==
    Cardinality({i \in 1..Len(toCreateGQ) :
                    /\ Question[toCreateGQ[i].questionId].category = c
                    /\ correctOnly => toCreateGQ[i].isCorrect})

\* C15: after a /complete of the session-scoped variant the mastery stored
\* for each category is the percentage of the answers of the session just
\* completed alone; what was stored before is overwritten, so a category
\* without an answer in the session is stored as 0.
C15_SessionOverwrites ==
    Completed =>
        \A c \in Categories :
            /\ profile[req.userId][masteryField[c]] =
                   calculateMastery([correct |-> SessionAnswers(c, TRUE),
                                     total |-> SessionAnswers(c, FALSE)])
            /\ res.masteryScores[masteryField[c]] =
                   profile[req.userId][masteryField[c]]

\* a second /complete of a user: a category whose earlier answers were all
\* correct is stored with the lower percentage of this session, and another
\* that had answers before and has none now is stored as 0
C15_Witness ==
    /\ Completed
    /\ \E c, d \in Categories :
          LET before(e) == categoryStats(RowsOf(req.userId, Previous))[e]
          IN  /\ before(c).total > 0 /\ before(c).correct = before(c).total
              /\ SessionAnswers(c, FALSE) > 0
              /\ profile[req.userId][masteryField[c]] < 100
              /\ before(d).correct > 0
              /\ SessionAnswers(d, FALSE) = 0
              /\ profile[req.userId][masteryField[d]] = 0


\* where the client reports the counters, what is stored is the percentage
\* of the counters of this request alone
ReportedOverwrites ==
    Completed /\ ~isAnonymous(req.userId) =>
        \A c \in Categories :
            profile[req.userId][masteryField[c]] =
                calculateMastery(statsOrZero(req.categoryStats, c))


----------------------------------------------------------------------------
(* Properties of the leaderboard *)

Answered == Returned("GET /api/leaderboard")

\* the games the leaderboard is computed from, and the limit asked for
Selected == findMany(call.args[1], call.args[2])

Limit == parseInt(param(call.args[2], "limit", <<"1", "0">>))

Players == {Selected[i].userId : i \in 1..Len(Selected)}

\* the sum of a field over the selected games of a user
SumOf(userId, field) ==
    SumSeq([i \in 1..Len(Selected) |->
               IF Selected[i].userId = userId THEN Selected[i][field] ELSE 0])

\* C16: over n users with selected games and a limit L >= 1 the response has
\* min(L, n) entries, in non-increasing order of score, no user left out has
\* a greater score than one included, and entry i has rank i (from 1); without
\* any game the response is empty, and with 15 users and limit 10 it is the
\* top 10 with ranks 1..10.
C16_LeaderboardIsTopL ==
    Answered /\ Limit.k = "num" /\ Limit.n >= 1 =>
        LET body == ret[1].body
        IN  /\ Len(body) = Min(Limit.n, Cardinality(Players))
            /\ \A i \in 1..Len(body) :
                  /\ body[i].rank = i
                  /\ body[i].userId \in Players
                  /\ body[i].score = SumOf(body[i].userId, "score")
                  /\ \A j \in i + 1..Len(body) :
                        /\ body[i].score >= body[j].score
                        /\ body[i].userId # body[j].userId
                  /\ \A u \in Players :
                        (\A j \in 1..Len(body) : body[j].userId # u)
                            => SumOf(u, "score") <= body[i].score
            /\ Players = {} => body = <<>>

\* fifteen users and the limit 10: ten entries, ranks 1..10
C16_Witness ==
    /\ Answered
    /\ Cardinality(Players) = 15
    /\ Limit = MkNum(10, 1, FALSE)
    /\ Len(ret[1].body) = 10
    /\ \A i \in 1..10 : ret[1].body[i].rank = i
    /\ ret[1].body[10].score > 0

\* C17: entries of equal score keep the order in which their users first
\* appear in the selected games.
C17_TiesKeepInputOrder ==
    Answered =>
        LET body == ret[1].body
            first(u) == CHOOSE i \in 1..Len(Selected) :
                            /\ Selected[i].userId = u
                            /\ \A j \in 1..i - 1 : Selected[j].userId # u
        IN  \A i, j \in 1..Len(body) :
                i < j /\ body[i].score = body[j].score
                    => first(body[i].userId) < first(body[j].userId)

\* two users of one score, the one whose last game comes last in the table
\* being the one that appears first
C17_Witness ==
    /\ Answered
    /\ Len(ret[1].body) >= 2
    /\ ret[1].body[1].score = ret[1].body[2].score
    /\ Selected[Len(Selected)].userId = ret[1].body[1].userId

\* C18: a request whose limit is zero or negative is rejected as an error of
\* the caller.
C18_NonPositiveLimitRejected ==
    Answered /\ Limit.k = "num" /\ Limit.n <= 0 => ret[1].status \in 400..499

\* C19: the accuracy of an entry is 0 when its games sum to no question and
\* otherwise 100 * correct / total of the sums, rounded to the nearest
\* integer; it is an integer of 0..100 when every game has
\* correctAnswers <= totalQuestions.
C19_AccuracyIsRoundedPercent ==
    Answered =>
        \A i \in 1..Len(ret[1].body) :
            LET correct == SumOf(ret[1].body[i].userId, "correctAnswers")
                total == SumOf(ret[1].body[i].userId, "totalQuestions")
            IN  /\ ret[1].body[i].accuracy \in 0..100
                /\ total = 0 => ret[1].body[i].accuracy = 0
                /\ total > 0 => ret[1].body[i].accuracy
                                    = (200 * correct + total) \div (2 * total)


----------------------------------------------------------------------------
(* Properties of batchValidate *)

\* validate of one item alone
Alone(item) ==
    validate(item.userAnswer, item.correctAnswers, item.inputType,
             item.targetValue).value

\* C20: the result of batchValidate has the length of the input, result[i] is
\* validate of item i alone, and it stays the same when another item is
\* replaced or removed or when the list is reversed.
C20_BatchIsItemwise ==
    Returned("batchValidate") =>
        LET answers == call.args[1]
            n == Len(answers)
            out == ret[1]
        IN  /\ ~out.threw
            /\ Len(out.value) = n
            /\ \A i \in 1..n :
                  /\ out.value[i] = Alone(answers[i])
                  /\ batchValidate([k \in 1..n |-> answers[n + 1 - k]])
                         .value[n + 1 - i] = out.value[i]
                  /\ \A j \in (1..n) \ {i} :
                        /\ batchValidate(RemoveAt(answers, j))
                               .value[IF j < i THEN i - 1 ELSE i] = out.value[i]
                        /\ \A x \in BatchItems :
                              batchValidate([answers EXCEPT ![j] = x]).value[i]
                                  = out.value[i]

\* a batch whose first item is incorrect and whose last is correct, of
\* different input types
C20_Witness ==
    /\ Returned("batchValidate")
    /\ Len(call.args[1]) = MaxBatch
    /\ call.args[1][1].inputType # call.args[1][MaxBatch].inputType
    /\ ~ret[1].value[1]
    /\ ret[1].value[MaxBatch]


----------------------------------------------------------------------------
(* Properties of calls of validate one after another *)

----------------------------------------------------------------------------
(* Properties of concurrent completions *)

\* C22: when two /complete requests of one user for different sessions have
\* both finished, in whatever order their database steps were taken, the
\* stored mastery of every category is the percentage over all the answers
\* the two requests recorded for the user.
C22_NoLostMasteryUpdate ==
    /\ Len(call) = 2
    /\ call[1].userId = call[2].userId
    /\ call[1].sessionId # call[2].sessionId
    /\ call[1].step = "done" /\ call[2].step = "done"
    => \A c \in Categories :
          profile[call[1].userId][masteryField[c]] =
              calculateMastery(
                  categoryStats(RowsOf(call[1].userId, gameQuestion))[c])

----------------------------------------------------------------------------
(* Properties of sessions completed more than once *)

\* the completed games of the user
CompletedGames(userId) ==
    {s \in 1..Len(gameResult) :
        gameResult[s].userId = userId /\ gameResult[s].isCompleted}

\* the sum of the scores stored in the games
ScoreOfGames(games) ==
    LET RECURSIVE Sum(_)
        Sum(S) == IF S = {} THEN 0
                  ELSE LET s == CHOOSE x \in S : TRUE
                       IN  gameResult[s].score + Sum(S \ {s})
    IN  Sum(games)

\* C23: a game session is scored at most once: a profile's gamesPlayed is at
\* most the number of the user's completed games and its totalScore at most
\* the sum of their scores, and a /complete of a session that is already
\* completed adds no GameQuestion rows and leaves every profile as it was.
C23_SessionScoredOnce ==
    /\ [](\A u \in Users :
            /\ profile[u].gamesPlayed <= Cardinality(CompletedGames(u))
            /\ profile[u].totalScore <= ScoreOfGames(CompletedGames(u)))
    /\ [][\A s \in 1..Len(gameResult) :
             /\ gameResult[s].isCompleted
             /\ req'.route = "/complete"
             /\ req'.sessionId = s
             /\ req'.userId = gameResult[s].userId
             => gameQuestion' = gameQuestion /\ profile' = profile]_vars

\* C24: within one /complete a question is counted at most once: no two of
\* the rows the request graded are of the same question, so the score and the
\* counters hold each question's contribution once.  (Which questions /start
\* served is not stored, so the handler has nothing to compare an answer's
\* question with.)
C24_QuestionCountedOnce ==
    Completed =>
        \A i, j \in 1..Len(toCreateGQ) :
            toCreateGQ[i].questionId = toCreateGQ[j].questionId => i = j

----------------------------------------------------------------------------
(* Properties of session ownership *)

\* the request of the step is for a session that is the requesting user's
OwnRequested ==
    /\ req'.sessionId \in 1..Len(gameResult)
    /\ gameResult[req'.sessionId].userId = req'.userId

----------------------------------------------------------------------------
(* Properties of anonymous play *)

\* C26: a request of a player whose id starts with "anon_" leaves the
\* HintUsage, GameResult, GameQuestion and Profile tables as they were; its
\* /start is answered with no session id and its GET /session/:id with 404.
C26_AnonymousPersistsNothing ==
    [][req'.userId \in {"anon_1"} =>
          /\ hintUsage' = hintUsage
          /\ gameResult' = gameResult
          /\ gameQuestion' = gameQuestion
          /\ profile' = profile
          /\ req'.route = "/start" => res'.sessionId = 0
          /\ req'.route = "/session/:id" => res'.status = 404]_vars

\* an anonymous player has asked for the completed session of another player,
\* who has used a hint
C26_Witness ==
    /\ req.userId = "anon_1"
    /\ req.route = "/session/:id"
    /\ res.status = 404
    /\ req.sessionId \in 1..Len(gameResult)
    /\ gameResult[req.sessionId].isCompleted
    /\ hintUsage # <<>>

----------------------------------------------------------------------------
(* Properties of the counters of one /complete *)

\* C27: after a server-graded /complete the session's GameResult has
\* correctAnswers <= the number of GameQuestion rows the request created
\* <= totalQuestions; correctAnswers is the number of those rows with
\* isCorrect true and the sum of the four categories' correct counters; the
\* categories' total counters sum to the number of rows; and
\* 10 * correctAnswers <= score <= 30 * correctAnswers.
C27_CountersOfComplete ==
    Completed =>
        LET gr == gameResult[req.sessionId]
            stats == categoryStats(toCreateGQ)
        IN  /\ gr.correctAnswers <= Len(toCreateGQ)
            /\ Len(toCreateGQ) <= gr.totalQuestions
            /\ gr.correctAnswers =
                  Cardinality({i \in 1..Len(toCreateGQ) : toCreateGQ[i].isCorrect})
            /\ gr.correctAnswers =
                  stats["HEALTH"].correct + stats["COGNITION"].correct
                      + stats["DIGITAL"].correct + stats["FINANCE"].correct
            /\ Len(toCreateGQ) =
                  stats["HEALTH"].total + stats["COGNITION"].total
                      + stats["DIGITAL"].total + stats["FINANCE"].total
            /\ 10 * gr.correctAnswers <= gr.score
            /\ gr.score <= 30 * gr.correctAnswers

\* a /complete with an answer to an unknown question, a correct answer and a
\* wrong one
C27_Witness ==
    /\ Completed
    /\ gameResult[req.sessionId].correctAnswers > 0
    /\ gameResult[req.sessionId].correctAnswers < Len(toCreateGQ)
    /\ Len(toCreateGQ) < gameResult[req.sessionId].totalQuestions
    /\ gameResult[req.sessionId].score = 20

----------------------------------------------------------------------------
(* Properties of the entries of the leaderboard *)

\* the games of the user in the table that are completed, are of the
\* requested category (any when it is ALL or not given) and were completed
\* within the requested period (a week when none is given)
Contributing(userId) ==
    LET table == call.args[1]
        query == call.args[2]
        category == IF "category" \in DOMAIN query THEN query.category ELSE "ALL"
        period == IF "period" \in DOMAIN query THEN query.period ELSE "weekly"
    IN  {i \in 1..Len(table) :
            /\ table[i].userId = userId
            /\ table[i].isCompleted
            /\ category = "ALL" \/ table[i].category = category
            /\ period = "daily" => table[i].age <= 1
            /\ period = "weekly" => table[i].age <= 7
            /\ period = "monthly" => table[i].age <= 30}

\* C28: the leaderboard holds each user at most once, and an entry's score is
\* the sum of the scores, and its gamesPlayed the number, of exactly the
\* user's completed games of the requested period and category; a game that
\* is not completed contributes to no entry.
C28_EntryIsSumOfCompletedGames ==
    Answered =>
        LET body == ret[1].body
            table == call.args[1]
        IN  /\ \A i, j \in 1..Len(body) :
                  body[i].userId = body[j].userId => i = j
            /\ \A i \in 1..Len(body) :
                  /\ body[i].gamesPlayed =
                        Cardinality(Contributing(body[i].userId))
                  /\ body[i].score =
                        SumSeq([k \in 1..Len(table) |->
                                   IF k \in Contributing(body[i].userId)
                                   THEN table[k].score ELSE 0])

\* an entry of two games of a user who also has a game that is not completed
C28_Witness ==
    /\ Answered
    /\ \E i \in 1..Len(ret[1].body) :
          /\ ret[1].body[i].gamesPlayed = 2
          /\ ret[1].body[i].score > 0
          /\ \E k \in 1..Len(call.args[1]) :
                /\ call.args[1][k].userId = ret[1].body[i].userId
                /\ ~call.args[1][k].isCompleted

----------------------------------------------------------------------------
(* Properties of the refresh tokens *)

\* the request i took the refresh token away: a successful /refresh or a
\* /logout that presented it, or a successful /signin of its user after it
\* was issued
Superseded(i, token) ==
    \/ call[i].route = "/refresh" /\ ret[i].status = 200 /\ call[i].cookie = token
    \/ call[i].route = "/logout" /\ call[i].cookie = token
    \/ /\ call[i].route = "/signin" /\ ret[i].status = 200
       /\ call[i].username = token.uid
       /\ \E k \in 1..(i - 1) : ret[k].refresh_token = token

\* C29: a /refresh that presents a refresh token after a successful /refresh
\* or a /logout with that token, or after a new /signin of its user, is
\* answered 401 and sets no token.
C29_RotatedTokenRefused ==
    \A i, j \in 1..Len(call) :
        /\ i < j
        /\ call[j].route = "/refresh"
        /\ call[j].cookie # NoCookie
        /\ Superseded(i, call[j].cookie)
        => ret[j].status = 401 /\ ret[j].refresh_token = NoCookie

----------------------------------------------------------------------------
(* Properties of gameLimiter *)

\* C30: for each key at most 30 requests are passed to next from the one
\* that opens a window until the window's resetAt; a request of a key that
\* has had its 30 and comes no later than resetAt is answered 429, is not
\* passed to next and leaves the Map as it was; and the first request after
\* resetAt is passed to next and opens a window with count 1.
C30_GameLimiterAdmitsMax ==
    /\ [](\A k \in DOMAIN call : call[k] <= 30)
    /\ [][now' = now =>
             LET k == req'.key
             IN  IF k \in DOMAIN store /\ now <= store[k].resetAt
                 THEN call[k] >= 30 =>
                         /\ res'.status = 429
                         /\ ~res'.next
                         /\ store' = store
                 ELSE /\ res'.next
                      /\ store'[k] = [count |-> 1, resetAt |-> now + 60000]]_vars

\* the key's window has had its 30 requests and the 31st was refused at the
\* very time of resetAt, while the other key has a later window
C30_Witness ==
    /\ req.route = "gameLimiter"
    /\ res.status = 429
    /\ call[req.key] = 30
    /\ now = store[req.key].resetAt
    /\ \E k \in DOMAIN store : store[k].resetAt > now /\ store[k].count > 1

============================================================================
